---- MODULE Spec2Model ----
(***************************************************************************)
(* Reference-integrity engine of the DAO AI Builder front end:             *)
(*   utils/dependency-check.ts  (scalar reference test, structural match,  *)
(*                               graph walker, the per-category finders)   *)
(*   utils/safe-delete.ts       (validateConfig, validateDeletion,         *)
(*                               safeDelete)                               *)
(*   stores/notificationStore.ts (addNotification)                         *)
(*   MiddlewareSection / MemorySection (the handlers that call them)       *)
(*                                                                         *)
(* JSON values are tagged records: S (string), N (number), Null, Undef,    *)
(* O (object: a sequence of <<key, value>> pairs in insertion order, as    *)
(* Object.entries and JSON.stringify see it) and A (array).                *)
(***************************************************************************)
EXTENDS Integers, Sequences, FiniteSets, TLC

VARIABLES
    config,         \* useConfigStore.getState().config : the live document
    notifications,  \* useNotificationStore.notifications
    nextId,         \* source of fresh notification ids (Date.now()-random)
    pc,             \* position of the running safeDelete invocation
    call,           \* locals of the running safeDelete invocation
    trace,          \* states the current safeDelete invocation went through
    deleteCalls,    \* how often the current invocation called deleteAction
    ret,            \* return value of the last finished safeDelete
    calls,          \* number of safeDelete invocations so far
    edits,          \* number of MiddlewareSection submits so far
    query,          \* arguments of the last direct call of a pure function
    deps,           \* result of the last dependency-finder call
    verdict,        \* result of the last direct call of a function
    timers,         \* pending setTimeout callbacks of the notification store
    now,            \* Date.now(), in milliseconds
    deployment,     \* state of useDeploymentStore
    chat,           \* ChatPanel: its React state, the chat store, the running sendMessage
    response,       \* the body of the response to /api/chat: all of it, and what is unread
    modal           \* GitHubImportModal: its React state and the fetches in flight

\* the variables of the parts of the UI that take no part in a deletion
otherVars == <<deployment, chat, response, modal>>

vars == <<config, notifications, nextId, pc, call, trace, deleteCalls, ret,
          calls, edits, query, deps, verdict, timers, now, otherVars>>

-----------------------------------------------------------------------------
(* Bounds of the model *)

MaxCalls == 2
MaxEdits == 1
MaxNotes == 3
MaxTime == 20000
MaxTyped == 1
MaxClicks == 1
MaxFetches == 2
MaxNested == 2

-----------------------------------------------------------------------------
(* JSON values *)

S(s) == [t |-> "str", s |-> s]
N(n) == [t |-> "num", n |-> n]
O(e) == [t |-> "obj", e |-> e]
A(e) == [t |-> "arr", e |-> e]
B(b) == [t |-> "bool", b |-> b]
Null == [t |-> "null"]
Undef == [t |-> "undef"]

HasKey(v, k) == v.t = "obj" /\ \E i \in DOMAIN v.e : v.e[i][1] = k

\* v[k] / v?.[k] on a value that is not null or undefined
Get(v, k) ==
    IF HasKey(v, k)
    THEN v.e[CHOOSE i \in DOMAIN v.e : v.e[i][1] = k][2]
    ELSE Undef

Get2(v, k1, k2) == Get(Get(v, k1), k2)
Get3(v, k1, k2, k3) == Get(Get2(v, k1, k2), k3)

\* v[k] = x : an existing property keeps its place, a new one goes last
Put(v, k, x) ==
    IF HasKey(v, k)
    THEN O([i \in DOMAIN v.e |-> IF v.e[i][1] = k THEN <<k, x>> ELSE v.e[i]])
    ELSE O(Append(v.e, <<k, x>>))

\* delete v[k]
Del(v, k) == O(SelectSeq(v.e, LAMBDA p : p[1] # k))

\* JavaScript truthiness
Truthy(v) ==
    CASE v.t = "undef" -> FALSE
      [] v.t = "null"  -> FALSE
      [] v.t = "str"   -> v.s # ""
      [] v.t = "num"   -> v.n # 0
      [] v.t = "bool"  -> v.b
      [] OTHER         -> TRUE

\* typeof v === 'object' && v !== null
IsObjectLike(v) == v.t \in {"obj", "arr"}

\* Object.entries(v)
Entries(v) ==
    CASE v.t = "obj" -> v.e
      [] v.t = "arr" -> [i \in DOMAIN v.e |-> <<ToString(i - 1), v.e[i]>>]
      [] OTHER       -> <<>>

\* s.flatMap(F), left to right
FlatMap(s, F(_)) ==
    LET f[i \in 0..Len(s)] == IF i = 0 THEN <<>> ELSE f[i - 1] \o F(s[i])
    IN  f[Len(s)]

\* the strings of s joined by sep
Join(s, sep) ==
    LET f[i \in 0..Len(s)] ==
            IF i = 0 THEN ""
            ELSE IF i = 1 THEN s[1]
            ELSE f[i - 1] \o sep \o s[i]
    IN  f[Len(s)]

\* text.startsWith(prefix)
startsWith(text, prefix) ==
    Len(text) >= Len(prefix) /\ SubSeq(text, 1, Len(prefix)) = prefix

\* text.slice(n)
slice(text, n) == SubSeq(text, n + 1, Len(text))

\* JSON.stringify(v): a property whose value is undefined is left out, an
\* undefined array element is written null
RECURSIVE JSONStringify(_)
JSONStringify(v) ==
    CASE v.t = "str"  -> "\"" \o v.s \o "\""
      [] v.t = "num"  -> ToString(v.n)
      [] v.t = "bool" -> IF v.b THEN "true" ELSE "false"
      [] v.t = "null" -> "null"
      [] v.t = "arr"  ->
            "[" \o Join([i \in DOMAIN v.e |->
                            IF v.e[i].t = "undef" THEN "null"
                            ELSE JSONStringify(v.e[i])], ",") \o "]"
      [] v.t = "obj"  ->
            LET kept == SelectSeq(v.e, LAMBDA p : p[2].t # "undef")
            IN  "{" \o Join([i \in DOMAIN kept |->
                                "\"" \o kept[i][1] \o "\":" \o
                                JSONStringify(kept[i][2])], ",") \o "}"
      [] OTHER        -> "undefined"

\* JSON.parse(JSON.stringify(v)): the value read back from that text
RECURSIVE JSONRoundTrip(_)
JSONRoundTrip(v) ==
    CASE v.t = "arr" ->
            A([i \in DOMAIN v.e |->
                  IF v.e[i].t = "undef" THEN Null ELSE JSONRoundTrip(v.e[i])])
      [] v.t = "obj" ->
            LET kept == SelectSeq(v.e, LAMBDA p : p[2].t # "undef")
            IN  O([i \in DOMAIN kept |->
                      <<kept[i][1], JSONRoundTrip(kept[i][2])>>])
      [] OTHER -> v

-----------------------------------------------------------------------------
(* utils/dependency-check.ts *)

RefPrefix == "__REF__"
AliasPrefix == "*"

\* variant: a string that starts with one of the three forms
valueStartsWithRef(value, refKey) ==
    /\ value.t = "str"
    /\ \E form \in {RefPrefix \o refKey, AliasPrefix \o refKey, refKey} :
          /\ Len(form) <= Len(value.s)
          /\ SubSeq(value.s, 1, Len(form)) = form

valueContainsRef(value, refKey) ==
    /\ value.t = "str"
    /\ \/ value.s = RefPrefix \o refKey
       \/ value.s = AliasPrefix \o refKey
       \/ value.s = refKey

\* variant: a resource type the switch has no case for is looked up among
\* the tools
ConfiguredResourceOrTool(cfg, resourceType, refKey) ==
    Get2(cfg, "tools", refKey)

\* the switch of objectMatchesKey: where a resource type keeps its components
ConfiguredResource(cfg, resourceType, refKey) ==
    CASE resourceType = "llm"          -> Get3(cfg, "resources", "llms", refKey)
      [] resourceType = "schema"       -> Get2(cfg, "schemas", refKey)
      [] resourceType = "genie_room"   -> Get3(cfg, "resources", "genie_rooms", refKey)
      [] resourceType = "retriever"    -> Get2(cfg, "retrievers", refKey)
      [] resourceType = "vector_store" -> Get3(cfg, "resources", "vector_stores", refKey)
      [] resourceType = "function"     -> Get3(cfg, "resources", "functions", refKey)
      [] resourceType = "warehouse"    -> Get3(cfg, "resources", "warehouses", refKey)
      [] resourceType = "connection"   -> Get3(cfg, "resources", "connections", refKey)
      [] resourceType = "database"     -> Get3(cfg, "resources", "databases", refKey)
      [] resourceType = "tool"         -> Get2(cfg, "tools", refKey)
      [] resourceType = "guardrail"    -> Get2(cfg, "guardrails", refKey)
      [] resourceType = "agent"        -> Get2(cfg, "agents", refKey)
      [] resourceType = "prompt"       -> Get2(cfg, "prompts", refKey)
      [] resourceType = "variable"     -> Get2(cfg, "variables", refKey)
      [] resourceType = "service_principal" -> Get2(cfg, "service_principals", refKey)
      [] OTHER                         -> Null

objectMatchesKey(obj, refKey, cfg, resourceType) ==
    IF ~IsObjectLike(obj) THEN FALSE
    ELSE LET configuredResource == ConfiguredResource(cfg, resourceType, refKey)
         IN  IF ~Truthy(configuredResource) THEN FALSE
             ELSE JSONStringify(obj) = JSONStringify(configuredResource)

\* variant: a mapping entry whose value is a scalar reference is recorded
\* and then walked as well
RECURSIVE findRefsAndWalk(_, _, _)
findRefsAndWalk(obj, refKey, path) ==
    CASE obj.t = "str" ->
            IF valueContainsRef(obj, refKey) THEN <<path>> ELSE <<>>
      [] obj.t = "arr" ->
            FlatMap([i \in DOMAIN obj.e |-> <<i, obj.e[i]>>],
                    LAMBDA p : findRefsAndWalk(p[2], refKey,
                                  path \o "[" \o ToString(p[1] - 1) \o "]"))
      [] obj.t = "obj" ->
            FlatMap(obj.e,
                    LAMBDA p : (IF valueContainsRef(p[2], refKey)
                                THEN <<path \o "." \o p[1]>> ELSE <<>>)
                               \o findRefsAndWalk(p[2], refKey, path \o "." \o p[1]))
      [] OTHER -> <<>>

RECURSIVE findRefsInObject(_, _, _)
findRefsInObject(obj, refKey, path) ==
    CASE obj.t \in {"null", "undef"} -> <<>>
      [] obj.t = "str" ->
            IF valueContainsRef(obj, refKey) THEN <<path>> ELSE <<>>
      [] obj.t = "arr" ->
            LET f[i \in 0..Len(obj.e)] ==
                    IF i = 0 THEN <<>>
                    ELSE f[i - 1] \o
                         findRefsInObject(obj.e[i], refKey,
                                          path \o "[" \o ToString(i - 1) \o "]")
            IN  f[Len(obj.e)]
      [] obj.t = "obj" ->
            LET f[i \in 0..Len(obj.e)] ==
                    IF i = 0 THEN <<>>
                    ELSE LET key == obj.e[i][1]
                             value == obj.e[i][2]
                         IN  IF value.t = "str" /\ valueContainsRef(value, refKey)
                             THEN Append(f[i - 1], path \o "." \o key)
                             ELSE f[i - 1] \o
                                  findRefsInObject(value, refKey, path \o "." \o key)
            IN  f[Len(obj.e)]
      [] OTHER -> <<>>

Dep(type, name, field) == [type |-> type, name |-> name, field |-> field]

\* variant: the loop stops at the first entry that matches
FieldDepsFirstOnly(cfg, section, field, refKey, resourceType, type) ==
    LET hit(p) == \/ valueContainsRef(Get(p[2], field), refKey)
                  \/ objectMatchesKey(Get(p[2], field), refKey, cfg, resourceType)
        hits == SelectSeq(Entries(section), hit)
    IN  IF ~Truthy(section) \/ Len(hits) = 0 THEN <<>>
        ELSE <<Dep(type, hits[1][1], field)>>

\* "for each [key, x] of Object.entries(section): if scalar-or-expanded
\*  reference in x[field], push {type, key, field}" -- the loop shape shared by
\* most finders
FieldDeps(cfg, section, field, refKey, resourceType, type) ==
    IF ~Truthy(section) THEN <<>>
    ELSE FlatMap(Entries(section),
                 LAMBDA p :
                    IF \/ valueContainsRef(Get(p[2], field), refKey)
                       \/ objectMatchesKey(Get(p[2], field), refKey, cfg, resourceType)
                    THEN <<Dep(type, p[1], field)>> ELSE <<>>)

findSchemaDependencies(cfg, schemaKey) ==
    LET resources == Get(cfg, "resources")
        vsDeps(p) ==
            LET vs == p[2]
                refs == findRefsInObject(vs, schemaKey, "")
                st == Get2(vs, "source_table", "schema")
                ix == Get2(vs, "index", "schema")
            IN  IF Len(refs) > 0 THEN <<Dep("vector_store", p[1], refs[1])>>
                ELSE (IF Truthy(st) /\ objectMatchesKey(st, schemaKey, cfg, "schema")
                      THEN <<Dep("vector_store", p[1], "source_table.schema")>> ELSE <<>>)
                     \o
                     (IF Truthy(ix) /\ objectMatchesKey(ix, schemaKey, cfg, "schema")
                      THEN <<Dep("vector_store", p[1], "index.schema")>> ELSE <<>>)
        inResources ==
            IF ~Truthy(resources) THEN <<>>
            ELSE FieldDeps(cfg, Get(resources, "tables"), "schema", schemaKey, "schema", "table")
                 \o FieldDeps(cfg, Get(resources, "volumes"), "schema", schemaKey, "schema", "volume")
                 \o FieldDeps(cfg, Get(resources, "functions"), "schema", schemaKey, "schema", "function")
                 \o (IF Truthy(Get(resources, "vector_stores"))
                     THEN FlatMap(Entries(Get(resources, "vector_stores")), vsDeps)
                     ELSE <<>>)
        inPrompts == FieldDeps(cfg, Get(cfg, "prompts"), "schema", schemaKey, "schema", "prompt")
        inApp ==
            IF /\ Truthy(Get2(cfg, "app", "registered_model"))
               /\ valueContainsRef(Get3(cfg, "app", "registered_model", "schema"), schemaKey)
            THEN <<Dep("app", "registered_model", "schema")>> ELSE <<>>
    IN  inResources \o inPrompts \o inApp

\* "if (parent) { if scalar-or-expanded reference in parent[field], push }"
SingleDep(cfg, parent, field, refKey, resourceType, type, name) ==
    IF /\ Truthy(parent)
       /\ \/ valueContainsRef(Get(parent, field), refKey)
          \/ objectMatchesKey(Get(parent, field), refKey, cfg, resourceType)
    THEN <<Dep(type, name, field)>> ELSE <<>>

findLlmDependencies(cfg, llmKey) ==
    FieldDeps(cfg, Get(cfg, "agents"), "model", llmKey, "llm", "agent")
    \o FieldDeps(cfg, Get(cfg, "guardrails"), "model", llmKey, "llm", "guardrail")
    \o SingleDep(cfg, Get2(cfg, "memory", "store"), "embedding_model",
                 llmKey, "llm", "memory", "store")
    \o SingleDep(cfg, Get3(cfg, "app", "orchestration", "supervisor"), "model",
                 llmKey, "llm", "orchestration", "supervisor")
    \o FieldDeps(cfg, Get2(cfg, "resources", "vector_stores"), "embedding_model",
                 llmKey, "llm", "vector_store")

\* "for each [key, tool] of cfg.tools with an object tool.function: refs =
\*  findRefsInObject(tool.function, refKey); if any, push {tool, key, field}"
ToolFunctionDeps(cfg, refKey, fixedField) ==
    IF ~Truthy(Get(cfg, "tools")) THEN <<>>
    ELSE FlatMap(Entries(Get(cfg, "tools")),
                 LAMBDA p :
                    LET fn == Get(p[2], "function")
                        refs == IF IsObjectLike(fn)
                                THEN findRefsInObject(fn, refKey, "") ELSE <<>>
                    IN  IF Len(refs) > 0
                        THEN <<Dep("tool", p[1],
                                   IF fixedField = "" THEN refs[1] ELSE fixedField)>>
                        ELSE <<>>)

\* the same loop over resources.databases, walking the whole database value
DatabaseTreeDeps(cfg, refKey) ==
    IF ~Truthy(Get2(cfg, "resources", "databases")) THEN <<>>
    ELSE FlatMap(Entries(Get2(cfg, "resources", "databases")),
                 LAMBDA p :
                    LET refs == findRefsInObject(p[2], refKey, "")
                    IN  IF Len(refs) > 0 THEN <<Dep("database", p[1], refs[1])>>
                        ELSE <<>>)

findVariableDependencies(cfg, varKey) ==
    (IF Truthy(Get2(cfg, "app", "environment_vars"))
     THEN FlatMap(Entries(Get2(cfg, "app", "environment_vars")),
                  LAMBDA p : IF valueContainsRef(p[2], varKey)
                             THEN <<Dep("environment_var", p[1], "value")>> ELSE <<>>)
     ELSE <<>>)
    \o ToolFunctionDeps(cfg, varKey, "")
    \o DatabaseTreeDeps(cfg, varKey)

\* findRetrieverDependencies / findGenieRoomDependencies: the tree walk first,
\* then the structural match of function.args[argName]
ToolArgDeps(cfg, refKey, argName, resourceType) ==
    IF ~Truthy(Get(cfg, "tools")) THEN <<>>
    ELSE FlatMap(Entries(Get(cfg, "tools")),
                 LAMBDA p :
                    LET fn == Get(p[2], "function")
                        arg == Get2(fn, "args", argName)
                    IN  IF ~IsObjectLike(fn) THEN <<>>
                        ELSE IF Len(findRefsInObject(fn, refKey, "")) > 0
                        THEN <<Dep("tool", p[1], argName)>>
                        ELSE IF Truthy(arg) /\ objectMatchesKey(arg, refKey, cfg, resourceType)
                        THEN <<Dep("tool", p[1], argName)>>
                        ELSE <<>>)

findRetrieverDependencies(cfg, retrieverKey) ==
    ToolArgDeps(cfg, retrieverKey, "retriever", "retriever")

findGenieRoomDependencies(cfg, genieKey) ==
    ToolArgDeps(cfg, genieKey, "genie_room", "genie_room")

findVectorStoreDependencies(cfg, vsKey) ==
    FieldDeps(cfg, Get(cfg, "retrievers"), "vector_store", vsKey,
              "vector_store", "retriever")

findFunctionDependencies(cfg, funcKey) ==
    IF ~Truthy(Get(cfg, "tools")) THEN <<>>
    ELSE FlatMap(Entries(Get(cfg, "tools")),
                 LAMBDA p :
                    LET fn == Get(p[2], "function")
                        refs == findRefsInObject(fn, funcKey, "")
                    IN  IF ~IsObjectLike(fn) THEN <<>>
                        ELSE (IF Get(fn, "__MERGE__") = S(funcKey)
                              THEN <<Dep("tool", p[1], "function (merge key)")>>
                              ELSE <<>>)
                             \o
                             (IF Len(refs) > 0
                              THEN <<Dep("tool", p[1], refs[1])>> ELSE <<>>))

\* "for each item of list: string -> scalar test, object -> structural test;
\*  push once and break" (findToolDependencies, findGuardrailDependencies,
\*  findAgentDependencies)
ListHasRef(cfg, list, refKey, resourceType) ==
    /\ list.t = "arr"
    /\ \E i \in DOMAIN list.e :
          \/ list.e[i].t = "str" /\ valueContainsRef(list.e[i], refKey)
          \/ IsObjectLike(list.e[i])
             /\ objectMatchesKey(list.e[i], refKey, cfg, resourceType)

AgentListDeps(cfg, field, refKey, resourceType) ==
    IF ~Truthy(Get(cfg, "agents")) THEN <<>>
    ELSE FlatMap(Entries(Get(cfg, "agents")),
                 LAMBDA p :
                    IF /\ Truthy(Get(p[2], field))
                       /\ ListHasRef(cfg, Get(p[2], field), refKey, resourceType)
                    THEN <<Dep("agent", p[1], field)>> ELSE <<>>)

findToolDependencies(cfg, toolKey) ==
    AgentListDeps(cfg, "tools", toolKey, "tool")

findGuardrailDependencies(cfg, guardrailKey) ==
    AgentListDeps(cfg, "guardrails", guardrailKey, "guardrail")

findPromptDependencies(cfg, promptKey) ==
    IF ~Truthy(Get(cfg, "agents")) THEN <<>>
    ELSE FlatMap(Entries(Get(cfg, "agents")),
                 LAMBDA p : IF valueContainsRef(Get(p[2], "prompt"), promptKey)
                            THEN <<Dep("agent", p[1], "prompt")>> ELSE <<>>)

findAgentDependencies(cfg, agentKey) ==
    IF /\ Truthy(Get2(cfg, "app", "agents"))
       /\ ListHasRef(cfg, Get2(cfg, "app", "agents"), agentKey, "agent")
    THEN <<Dep("app", "agents", "agents list")>> ELSE <<>>

findDatabaseDependencies(cfg, dbKey) ==
    SingleDep(cfg, Get2(cfg, "memory", "checkpointer"), "database",
              dbKey, "database", "memory", "checkpointer")
    \o SingleDep(cfg, Get2(cfg, "memory", "store"), "database",
                 dbKey, "database", "memory", "store")

findServicePrincipalDependencies(cfg, spKey) ==
    ToolFunctionDeps(cfg, spKey, "") \o DatabaseTreeDeps(cfg, spKey)

findConnectionDependencies(cfg, connKey) ==
    ToolFunctionDeps(cfg, connKey, "connection")

findWarehouseDependencies(cfg, whKey) ==
    ToolFunctionDeps(cfg, whKey, "warehouse")

\* the character U+2022 (bullet), written as its escape
Bullet == "\\u2022"

\* variant: the records listed last to first
formatDependencyMessageReversed(records) ==
    IF Len(records) = 0 THEN ""
    ELSE "This component is referenced by:\n"
         \o Join([i \in DOMAIN records |->
                     LET d == records[Len(records) + 1 - i]
                     IN  Bullet \o " " \o d.type \o ": \"" \o d.name
                         \o "\" (" \o d.field \o ")"], "\n")
         \o "\n\nPlease remove these references before deleting."

formatDependencyMessage(records) ==
    IF Len(records) = 0 THEN ""
    ELSE LET lines == [i \in DOMAIN records |->
                          Bullet \o " " \o records[i].type \o ": \"" \o records[i].name
                          \o "\" (" \o records[i].field \o ")"]
         IN  "This component is referenced by:\n" \o Join(lines, "\n")
             \o "\n\nPlease remove these references before deleting."

-----------------------------------------------------------------------------
(* The document universe: component categories, keys, reference encodings *)

\* resource types of objectMatchesKey, plus the two sections that have no
\* finder (middleware, memory)
Cats == {"schema", "llm", "variable", "retriever", "genie_room", "vector_store",
         "function", "tool", "guardrail", "prompt", "agent", "database",
         "service_principal", "connection", "warehouse"}

\* where the document keeps the components of a category
CatPath(cat) ==
    CASE cat = "schema"            -> <<"schemas">>
      [] cat = "llm"               -> <<"resources", "llms">>
      [] cat = "variable"          -> <<"variables">>
      [] cat = "retriever"         -> <<"retrievers">>
      [] cat = "genie_room"        -> <<"resources", "genie_rooms">>
      [] cat = "vector_store"      -> <<"resources", "vector_stores">>
      [] cat = "function"          -> <<"resources", "functions">>
      [] cat = "tool"              -> <<"tools">>
      [] cat = "guardrail"         -> <<"guardrails">>
      [] cat = "prompt"            -> <<"prompts">>
      [] cat = "agent"             -> <<"agents">>
      [] cat = "database"          -> <<"resources", "databases">>
      [] cat = "service_principal" -> <<"service_principals">>
      [] cat = "connection"        -> <<"resources", "connections">>
      [] cat = "warehouse"         -> <<"resources", "warehouses">>
      [] cat = "middleware"        -> <<"middleware">>

KeyA(cat) == cat \o "_a"
KeyB(cat) == cat \o "_b"

\* every component key and dependent name a document of the model can hold
Names ==
    {KeyA(c) : c \in Cats \cup {"memory"}} \cup {KeyB(c) : c \in Cats}
    \cup {"table_x", "volume_x", "function_x", "vs_x", "prompt_x", "agent_x",
          "guardrail_x", "tool_x", "database_x", "retriever_x", "mw_x",
          "mw_y", "tool_call_limit_middleware", "ENV_X"}

\* v with x stored at path, objects created on the way
RECURSIVE PutPath(_, _, _)
PutPath(v, path, x) ==
    LET o == IF v.t = "obj" THEN v ELSE O(<<>>)
    IN  IF Len(path) = 1 THEN Put(o, path[1], x)
        ELSE Put(o, path[1], PutPath(Get(o, path[1]), Tail(path), x))

RECURSIVE GetPath(_, _)
GetPath(v, path) ==
    IF Len(path) = 0 THEN v ELSE GetPath(Get(v, path[1]), Tail(path))

\* delete v[path[1]]...[path[n]][k] when the container is there
DelPath(v, path, k) ==
    IF GetPath(v, path).t = "obj"
    THEN PutPath(v, path, Del(GetPath(v, path), k))
    ELSE v

-----------------------------------------------------------------------------
(* The Document Serializer (utils/yaml-generator.ts, generateYAML) and the   *)
(* parser (js-yaml, yaml.load).  Neither is among the source files; both are *)
(* modelled from the specification, at interface level: the serialized       *)
(* document is the set of anchors it defines and the aliases it uses.        *)
(*  - every configured component is given an anchor named by its key;        *)
(*  - a wrapped-marker string "__REF__k" and an alias-marker string "*k" are *)
(*    emitted as the alias *k ("must emit the alias form at every reference  *)
(*    site, never the wrapped-marker form");                                 *)
(*  - every other value (a plain string, a mapping, a sequence) is emitted   *)
(*    by value.                                                              *)

\* the string leaves of v, in traversal order
RECURSIVE StringLeaves(_)
StringLeaves(v) ==
    CASE v.t = "str" -> <<v.s>>
      [] v.t = "arr" -> FlatMap(v.e, LAMBDA x : StringLeaves(x))
      [] v.t = "obj" -> FlatMap(v.e, LAMBDA p : StringLeaves(p[2]))
      [] OTHER       -> <<>>

\* the marker strings over the names of the model, with the name each refers to
MarkerTargets ==
    [m \in {RefPrefix \o n : n \in Names} \cup {AliasPrefix \o n : n \in Names} |->
        CHOOSE n \in Names : m = RefPrefix \o n \/ m = AliasPrefix \o n]

IsMarker(s) == s \in DOMAIN MarkerTargets

MarkerTarget(s) == MarkerTargets[s]

KeysOf(v) == {p[1] : p \in {v.e[i] : i \in DOMAIN v.e}}

\* the keys of the components the document configures
ComponentKeys(cfg) ==
    LET top == {"schemas", "variables", "service_principals", "tools",
                "guardrails", "middleware", "prompts", "retrievers", "agents"}
        res == Get(cfg, "resources")
        mem == Get(cfg, "memory")
    IN  UNION {KeysOf(Get(cfg, s)) : s \in {x \in top : Get(cfg, x).t = "obj"}}
        \cup (IF res.t = "obj"
              THEN UNION {KeysOf(Get(res, s)) :
                            s \in {x \in KeysOf(res) : Get(res, x).t = "obj"}}
              ELSE {})
        \cup (IF Truthy(mem)
              THEN {IF Truthy(Get(mem, "refName")) THEN Get(mem, "refName").s
                    ELSE "memory"}
              ELSE {})

generateYAML(cfg) ==
    CHOOSE y \in
        {[anchors |-> ComponentKeys(cfg),
          aliases |-> [i \in DOMAIN markers |-> MarkerTarget(markers[i])]] :
            markers \in {SelectSeq(StringLeaves(cfg), IsMarker)}} : TRUE

\* yaml.load (js-yaml): throws on the first alias that no anchor defines; the
\* message is js-yaml's, without the position it appends
yamlLoad(y) ==
    LET bad == SelectSeq(y.aliases, LAMBDA n : n \notin y.anchors)
    IN  IF Len(bad) = 0 THEN [ok |-> TRUE]
        ELSE [ok |-> FALSE, isError |-> TRUE,
              message |-> "unidentified alias \"" \o bad[1] \o "\""]

-----------------------------------------------------------------------------
(* utils/safe-delete.ts *)

\* String.prototype.toLowerCase on one character (the /i flag of the pattern)
LowerOf ==
    [c \in {"A", "B", "C", "D", "E", "F", "G", "H", "I", "J", "K", "L", "M",
            "N", "O", "P", "Q", "R", "S", "T", "U", "V", "W", "X", "Y", "Z"} |->
        CASE c = "A" -> "a" [] c = "B" -> "b" [] c = "C" -> "c" [] c = "D" -> "d"
          [] c = "E" -> "e" [] c = "F" -> "f" [] c = "G" -> "g" [] c = "H" -> "h"
          [] c = "I" -> "i" [] c = "J" -> "j" [] c = "K" -> "k" [] c = "L" -> "l"
          [] c = "M" -> "m" [] c = "N" -> "n" [] c = "O" -> "o" [] c = "P" -> "p"
          [] c = "Q" -> "q" [] c = "R" -> "r" [] c = "S" -> "s" [] c = "T" -> "t"
          [] c = "U" -> "u" [] c = "V" -> "v" [] c = "W" -> "w" [] c = "X" -> "x"
          [] c = "Y" -> "y" [] c = "Z" -> "z"]

\* text matches `literal` at position i, letters compared without case
MatchesAt(text, i, literal) ==
    /\ i + Len(literal) - 1 <= Len(text)
    /\ \A j \in 1..Len(literal) :
          LET c == SubSeq(text, i + j - 1, i + j - 1)
          IN  (IF c \in DOMAIN LowerOf THEN LowerOf[c] ELSE c)
              = SubSeq(literal, j, j)

\* variant: a pattern that matches no message
MatchNothing(message) == Null

\* message.match(/undefined alias "([^"]+)"/i): the first capture group of the
\* leftmost match, Null when the pattern matches nowhere
MatchUndefinedAlias(message) ==
    LET literal == "undefined alias \""
        \* the position of the quote that closes a capture starting at i
        close(i) ==
            IF \E j \in i..Len(message) : SubSeq(message, j, j) = "\""
            THEN CHOOSE j \in i..Len(message) :
                    /\ SubSeq(message, j, j) = "\""
                    /\ \A k \in i..(j - 1) : SubSeq(message, k, k) # "\""
            ELSE 0
        matches(i) ==
            /\ MatchesAt(message, i, literal)
            /\ close(i + Len(literal)) > i + Len(literal)
        starts == {i \in 1..Len(message) : matches(i)}
    IN  IF starts = {} THEN Null
        ELSE LET i == CHOOSE x \in starts : \A y \in starts : x <= y
             IN  S(SubSeq(message, i + Len(literal), close(i + Len(literal)) - 1))

\* the try/catch of validateConfig, given how `generateYAML(config);
\* yaml.load(yamlString)` ended: r.ok (returned), or threw a value that is an
\* Error with r.message, or threw a value that is not an Error
validateConfigCatch(r) ==
    IF r.ok THEN Null
    ELSE IF r.isError
    THEN CHOOSE d \in
            {IF aliasMatch # Null
             THEN S("This component is referenced by \"" \o aliasMatch.s
                    \o "\". Remove that reference first.")
             ELSE S("Validation failed: " \o r.message) :
                aliasMatch \in {MatchUndefinedAlias(r.message)}} : TRUE
    ELSE S("Unknown validation error")

validateConfig(cfg) ==
    CHOOSE d \in {validateConfigCatch(r) :
                    r \in {yamlLoad(y) : y \in {generateYAML(cfg)}}} : TRUE

\* componentType.toLowerCase(), on the type names callers pass
ToLowerCase(s) ==
    CASE s = "Tool"              -> "tool"
      [] s = "Guardrail"         -> "guardrail"
      [] s = "Schema"            -> "schema"
      [] s = "Variable"          -> "variable"
      [] s = "Agent"             -> "agent"
      [] s = "Service Principal" -> "service principal"
      [] s = "Prompt"            -> "prompt"
      [] s = "Retriever"         -> "retriever"
      [] s = "LLM"               -> "llm"
      [] s = "Genie Room"        -> "genie room"
      [] s = "Warehouse"         -> "warehouse"
      [] s = "Function"          -> "function"
      [] s = "Connection"        -> "connection"
      [] s = "Database"          -> "database"
      [] s = "Vector Store"      -> "vector store"
      [] s = "Middleware"        -> "middleware"
      [] s = "Memory"            -> "memory"
      [] s = "Table"             -> "table"
      [] s = "Volume"            -> "volume"
      [] s = "App"               -> "app"
      [] OTHER                   -> s

\* the switch of validateDeletion: the container a component type is deleted
\* from, <<>> for the default branch
SectionOf(lowerType) ==
    CASE lowerType = "tool"              -> <<"tools">>
      [] lowerType = "guardrail"         -> <<"guardrails">>
      [] lowerType = "schema"            -> <<"schemas">>
      [] lowerType = "variable"          -> <<"variables">>
      [] lowerType = "agent"             -> <<"agents">>
      [] lowerType = "service principal" -> <<"service_principals">>
      [] lowerType = "prompt"            -> <<"prompts">>
      [] lowerType = "retriever"         -> <<"retrievers">>
      [] lowerType = "llm"               -> <<"resources", "llms">>
      [] lowerType = "genie room"        -> <<"resources", "genie_rooms">>
      [] lowerType = "warehouse"         -> <<"resources", "warehouses">>
      [] lowerType = "function"          -> <<"resources", "functions">>
      [] lowerType = "connection"        -> <<"resources", "connections">>
      [] lowerType = "database"          -> <<"resources", "databases">>
      [] lowerType = "vector store"      -> <<"resources", "vector_stores">>
      [] lowerType = "middleware"        -> <<"middleware">>
      [] OTHER                           -> <<>>

(* validateDeletion works on objects, not on values: `delete` changes the    *)
(* object it is applied to, and whoever else holds that object sees the      *)
(* change.  The objects of a document down to the components are heap cells  *)
(* (address -> sequence of <<key, slot>>, a slot being a value or a pointer  *)
(* to a cell); what lies below a component is never written to and is kept   *)
(* as a value.                                                               *)

Ptr(a) == [t |-> "ptr", a |-> a]

\* the cells of document value v, owned by `owner`: the address of a cell is
\* its owner followed by the path of keys that leads to it
AllocHeap(owner, v) ==
    LET objKeys(obj) == {k \in KeysOf(obj) : Get(obj, k).t = "obj"}
        cell(obj, a) ==
            [i \in DOMAIN obj.e |->
                IF obj.e[i][2].t = "obj"
                THEN <<obj.e[i][1], Ptr(Append(a, obj.e[i][1]))>>
                ELSE obj.e[i]]
        addrs ==
            {<<owner>>}
            \cup {<<owner, k>> : k \in objKeys(v)}
            \cup UNION {{<<owner, k, k2>> : k2 \in objKeys(Get(v, k))}
                          : k \in objKeys(v)}
    IN  [a \in addrs |->
            CASE Len(a) = 1 -> cell(v, a)
              [] Len(a) = 2 -> cell(Get(v, a[2]), a)
              [] Len(a) = 3 -> Get2(v, a[2], a[3]).e]

\* the value reachable from cell a
RECURSIVE Resolve(_, _)
Resolve(heap, a) ==
    O([i \in DOMAIN heap[a] |->
          <<heap[a][i][1],
            IF heap[a][i][2].t = "ptr" THEN Resolve(heap, heap[a][i][2].a)
            ELSE heap[a][i][2]>>])

\* the slot of key k in cell a (Undef when there is none)
Slot(heap, a, k) ==
    IF \E i \in DOMAIN heap[a] : heap[a][i][1] = k
    THEN heap[a][CHOOSE i \in DOMAIN heap[a] : heap[a][i][1] = k][2]
    ELSE Undef

\* variant: const testConfig = { ...config }, a copy of the root object only
ShallowClone(heap) ==
    heap @@ [a \in {<<"test">>} |-> heap[<<"live">>]]

\* const testConfig = JSON.parse(JSON.stringify(config)): fresh cells for the
\* whole document, built from the text of the live one
DeepClone(heap) ==
    CHOOSE h \in {heap @@ AllocHeap("test", copy) :
                    copy \in {JSONRoundTrip(Resolve(heap, <<"live">>))}} : TRUE

\* if (testConfig.a?.b) delete testConfig.a.b[componentKey]
DeleteIn(heap, path, componentKey) ==
    LET container ==
            IF Len(path) = 1 THEN Slot(heap, <<"test">>, path[1])
            ELSE LET outer == Slot(heap, <<"test">>, path[1])
                 IN  IF outer.t = "ptr" THEN Slot(heap, outer.a, path[2])
                     ELSE Undef
    IN  IF container.t = "ptr"
        THEN [heap EXCEPT ![container.a] =
                 SelectSeq(heap[container.a], LAMBDA p : p[1] # componentKey)]
        ELSE heap

\* the cells reachable from cell a
RECURSIVE Reach(_, _)
Reach(heap, a) ==
    {a} \cup UNION {Reach(heap, heap[a][i][2].a) :
                       i \in {j \in DOMAIN heap[a] : heap[a][j][2].t = "ptr"}}

\* variant of the default branch that refuses a type it does not know
DefaultBranchRefuses(componentType) ==
    S("Unknown component type: " \o componentType)

\* default: return null  (unknown type, allow deletion)
DefaultBranch(componentType) == Null

\* result: the returned diagnostic (Null: allowed); live: the caller's
\* document after the call; test: the copy the deletion was applied to;
\* validated: validateConfig was called on the copy (the YAML was generated
\* and parsed); shared: the cells that both documents reach
validateDeletion(cfg, componentType, componentKey) ==
    LET path == SectionOf(ToLowerCase(componentType))
        run(heap2, testConfig) ==
            [result |-> IF path = <<>> THEN DefaultBranch(componentType)
                        ELSE validateConfig(testConfig),
             live   |-> Resolve(heap2, <<"live">>),
             test   |-> testConfig,
             validated |-> path # <<>>,
             shared |-> Reach(heap2, <<"live">>) \cap Reach(heap2, <<"test">>)]
    IN  CHOOSE r \in
            UNION {{run(heap2, testConfig) :
                      testConfig \in {Resolve(heap2, <<"test">>)}} :
               heap2 \in {IF path = <<>> THEN heap1
                          ELSE DeleteIn(heap1, path, componentKey) :
                   heap1 \in {DeepClone(heap0) :
                       heap0 \in {AllocHeap("live", cfg)}}}} : TRUE

-----------------------------------------------------------------------------
(* Documents of the model.  A document holds two components of one category  *)
(* (keys <cat>_a and <cat>_b, equal `name`, different `rank`) and one        *)
(* dependent whose field at a reference site holds a reference to one of     *)
(* them in one of the four encodings.                                        *)

Site(id, cat, path, list, dtype, dname) ==
    [id |-> id, cat |-> cat, path |-> path, list |-> list,
     dtype |-> dtype, dname |-> dname]

\* the (dependent, field) pairs the finders of dependency-check.ts inspect
FinderSites ==
    { Site("table.schema", "schema", <<"resources", "tables", "table_x", "schema">>, FALSE, "table", "table_x"),
      Site("volume.schema", "schema", <<"resources", "volumes", "volume_x", "schema">>, FALSE, "volume", "volume_x"),
      Site("function.schema", "schema", <<"resources", "functions", "function_x", "schema">>, FALSE, "function", "function_x"),
      Site("vector_store.source_table.schema", "schema", <<"resources", "vector_stores", "vs_x", "source_table", "schema">>, FALSE, "vector_store", "vs_x"),
      Site("vector_store.index.schema", "schema", <<"resources", "vector_stores", "vs_x", "index", "schema">>, FALSE, "vector_store", "vs_x"),
      Site("prompt.schema", "schema", <<"prompts", "prompt_x", "schema">>, FALSE, "prompt", "prompt_x"),
      Site("app.registered_model.schema", "schema", <<"app", "registered_model", "schema">>, FALSE, "app", "registered_model"),
      Site("agent.model", "llm", <<"agents", "agent_x", "model">>, FALSE, "agent", "agent_x"),
      Site("guardrail.model", "llm", <<"guardrails", "guardrail_x", "model">>, FALSE, "guardrail", "guardrail_x"),
      Site("memory.store.embedding_model", "llm", <<"memory", "store", "embedding_model">>, FALSE, "memory", "store"),
      Site("supervisor.model", "llm", <<"app", "orchestration", "supervisor", "model">>, FALSE, "orchestration", "supervisor"),
      Site("vector_store.embedding_model", "llm", <<"resources", "vector_stores", "vs_x", "embedding_model">>, FALSE, "vector_store", "vs_x"),
      Site("app.environment_vars", "variable", <<"app", "environment_vars", "ENV_X">>, FALSE, "environment_var", "ENV_X"),
      Site("tool.function.args.value", "variable", <<"tools", "tool_x", "function", "args", "value">>, FALSE, "tool", "tool_x"),
      Site("database.client_secret", "variable", <<"resources", "databases", "database_x", "client_secret">>, FALSE, "database", "database_x"),
      Site("tool.function.args.retriever", "retriever", <<"tools", "tool_x", "function", "args", "retriever">>, FALSE, "tool", "tool_x"),
      Site("tool.function.args.genie_room", "genie_room", <<"tools", "tool_x", "function", "args", "genie_room">>, FALSE, "tool", "tool_x"),
      Site("retriever.vector_store", "vector_store", <<"retrievers", "retriever_x", "vector_store">>, FALSE, "retriever", "retriever_x"),
      Site("tool.function.__MERGE__", "function", <<"tools", "tool_x", "function", "__MERGE__">>, FALSE, "tool", "tool_x"),
      Site("tool.function.args.function", "function", <<"tools", "tool_x", "function", "args", "function">>, FALSE, "tool", "tool_x"),
      Site("agent.tools", "tool", <<"agents", "agent_x", "tools">>, TRUE, "agent", "agent_x"),
      Site("agent.guardrails", "guardrail", <<"agents", "agent_x", "guardrails">>, TRUE, "agent", "agent_x"),
      Site("agent.prompt", "prompt", <<"agents", "agent_x", "prompt">>, FALSE, "agent", "agent_x"),
      Site("app.agents", "agent", <<"app", "agents">>, TRUE, "app", "agents"),
      Site("memory.checkpointer.database", "database", <<"memory", "checkpointer", "database">>, FALSE, "memory", "checkpointer"),
      Site("memory.store.database", "database", <<"memory", "store", "database">>, FALSE, "memory", "store"),
      Site("tool.function.args.service_principal", "service_principal", <<"tools", "tool_x", "function", "args", "service_principal">>, FALSE, "tool", "tool_x"),
      Site("database.service_principal", "service_principal", <<"resources", "databases", "database_x", "service_principal">>, FALSE, "database", "database_x"),
      Site("tool.function.args.connection", "connection", <<"tools", "tool_x", "function", "args", "connection">>, FALSE, "tool", "tool_x"),
      Site("tool.function.args.warehouse", "warehouse", <<"tools", "tool_x", "function", "args", "warehouse">>, FALSE, "tool", "tool_x") }

\* reference sites no finder inspects: a middleware argument naming a tool
\* (MiddlewareSection buildMiddlewareArgs, result.tool) and the orchestration's
\* reference to the memory component
UnmodeledSites ==
    { Site("middleware.args.tool", "tool", <<"middleware", "mw_x", "args", "tool">>, FALSE, "middleware", "mw_x"),
      Site("app.orchestration.memory", "memory", <<"app", "orchestration", "memory">>, FALSE, "orchestration", "memory") }

Encodings == {"wrapped", "alias", "bare", "expanded"}

\* the value of component `which` ("a" or "b") of a category
ComponentValue(cat, which, nm) ==
    IF cat = "memory"
    THEN O(<< <<"refName", S(KeyA("memory"))>>,
              <<"checkpointer", O(<< <<"name", S("default_checkpointer")>> >>)>> >>)
    ELSE O(<< <<"name", S(nm)>>,
              <<"rank", N(IF which = "a" THEN 1 ELSE 2)>> >>)

\* the document with the components of `cat` and nothing else
BaseDoc(cat, nm) ==
    IF cat = "memory"
    THEN O(<< <<"memory", ComponentValue("memory", "a", nm)>> >>)
    ELSE PutPath(PutPath(O(<<>>), Append(CatPath(cat), KeyA(cat)), ComponentValue(cat, "a", nm)),
                 Append(CatPath(cat), KeyB(cat)), ComponentValue(cat, "b", nm))

KeyOf(cat, which) == IF which = "a" THEN KeyA(cat) ELSE KeyB(cat)

\* the four encodings of a reference to component `which` of `cat`
Encode(enc, cat, which, nm) ==
    CASE enc = "wrapped"  -> S(RefPrefix \o KeyOf(cat, which))
      [] enc = "alias"    -> S(AliasPrefix \o KeyOf(cat, which))
      [] enc = "bare"     -> S(KeyOf(cat, which))
      [] enc = "expanded" -> ComponentValue(cat, which, nm)

\* MiddlewareSection, PRECONFIGURED_MIDDLEWARE: the factory whose arguments
\* name a tool
ToolCallLimitFactory == "dao_ai.middleware.create_tool_call_limit_middleware"

\* the document of a scenario; a middleware is stored under its factory's name
ScenarioDoc(sc) ==
    LET r    == Encode(sc.enc, sc.site.cat, sc.which, sc.nm)
        base == IF sc.site.path[1] = "middleware"
                THEN PutPath(BaseDoc(sc.site.cat, sc.nm),
                             <<"middleware", "mw_x", "name">>,
                             S(ToolCallLimitFactory))
                ELSE BaseDoc(sc.site.cat, sc.nm)
    IN  PutPath(base, sc.site.path, IF sc.site.list THEN A(<<r>>) ELSE r)

\* the `name` two components of a category share: a display name, or a name
\* that is also the key of one of them
SharedNames(cat) == {"shared-endpoint", KeyB(cat)}

Scenarios(sites) ==
    {sc \in [site : sites, enc : Encodings, which : {"a", "b"},
             nm : {"shared-endpoint"} \cup {KeyB(c) : c \in Cats}] :
        /\ sc.nm \in SharedNames(sc.site.cat)
        /\ sc.site.cat = "memory" => sc.which = "a" /\ sc.nm = "shared-endpoint"}

-----------------------------------------------------------------------------
(* stores/notificationStore.ts *)

\* addNotification: the list with the new notification appended
addNotification(list, id, type, message, details) ==
    Append(list, [id |-> id, type |-> type, message |-> message,
                  details |-> details, timestamp |-> now])

\* the delay of the auto-removal timer, in milliseconds
AutoRemoveDelay == 10000

\* variant: the timer is set for every notification, errors included
setTimeoutAlways(pending, id, type) ==
    pending \cup {[id |-> id, due |-> now + AutoRemoveDelay]}

\* addNotification, lines 39-45: if (type !== 'error') setTimeout(..., 10000);
\* the pending callbacks with the new one
setTimeout(pending, id, type) ==
    IF type # "error"
    THEN pending \cup {[id |-> id, due |-> now + AutoRemoveDelay]}
    ELSE pending

\* variant: the callback drops the oldest notification
timerDropsOldest(list, id) ==
    IF Len(list) = 0 THEN list ELSE Tail(list)

\* the callback of the timer: notifications.filter((n) => n.id !== id)
timerCallback(list, id) == SelectSeq(list, LAMBDA n : n.id # id)

\* removeNotification: notifications.filter((n) => n.id !== id)
removeNotification(list, id) == SelectSeq(list, LAMBDA n : n.id # id)

\* clearAll
clearAll(list) == <<>>

-----------------------------------------------------------------------------
(* The store's mutations (stores/configStore.ts is not among the source      *)
(* files; modelled from the specification: "applyDeletion performs the real  *)
(* mutation on the live Document")                                           *)

removeComponent(cfg, path, key) == DelPath(cfg, path, key)

addMiddleware(cfg, key, data) == PutPath(cfg, <<"middleware", key>>, data)

updateMemory(cfg, memory) == Put(cfg, "memory", memory)

\* updateMiddleware(key, updates): the entry is replaced by the updates or,
\* when the store merges, keeps its other fields
updateMiddleware(cfg, key, updates, merges) ==
    LET old == GetPath(cfg, <<"middleware", key>>)
        merged[i \in 0..Len(updates.e)] ==
            IF i = 0 THEN old ELSE Put(merged[i - 1], updates.e[i][1], updates.e[i][2])
    IN  PutPath(cfg, <<"middleware", key>>,
                IF merges /\ old.t = "obj" THEN merged[Len(updates.e)] ELSE updates)

\* what a deleteAction callback does to the live document
ApplyDeleteAction(cfg, action) ==
    CASE action.kind = "remove"       -> removeComponent(cfg, action.path, action.key)
      [] action.kind = "updateMemory" -> updateMemory(cfg, Undef)
      [] action.kind = "none"         -> cfg

-----------------------------------------------------------------------------
(* safeDelete, one step per state of its validate-then-commit sequence *)

\* variant in which safeDelete yields between its steps
NeverRunning == FALSE

\* safeDelete is synchronous: nothing else runs until it has returned
Running == pc \in {"validating", "committing"}

\* lines 120-126: entry, the locals of the invocation
SafeDeleteEnter(componentType, componentKey, action, outcomes) ==
    /\ ~Running
    /\ calls < MaxCalls
    /\ pc' = "validating"
    /\ call' = [componentType |-> componentType, componentKey |-> componentKey,
                deleteAction |-> action, outcomes |-> outcomes,
                config |-> config, error |-> Undef,
                outcome |-> "", notified |-> Len(notifications)]
    /\ trace' = <<"validating">>
    /\ deleteCalls' = 0
    /\ ret' = "pending"
    /\ calls' = calls + 1
    /\ UNCHANGED <<config, notifications, nextId, edits, query, deps, verdict>>
    /\ UNCHANGED <<timers, now, otherVars>>

\* variant of line 130 in which the diagnostic is ignored
BlocksNever(error) == FALSE

\* variant of line 153 in which only Error objects are caught
CaughtErrorsOnly(outcome) == outcome = "Error"

\* line 130, if (error): a diagnostic blocks the deletion
Blocks(error) == Truthy(error)

\* lines 141 and 153, try { ... } catch (error): every thrown value is caught
Caught(outcome) == TRUE

\* lines 128-139: validate before deleting; a diagnostic blocks the deletion
SafeDeleteValidate ==
    /\ pc = "validating"
    /\ \E r \in {validateDeletion(config, call.componentType, call.componentKey)} :
           /\ config' = r.live
           /\ call' = [call EXCEPT !.error = r.result]
           /\ IF Blocks(r.result)
              THEN /\ notifications' =
                         addNotification(notifications, nextId, "error",
                             "Cannot delete " \o call.componentType \o " \""
                                 \o call.componentKey \o "\"",
                             r.result)
                   /\ nextId' = nextId + 1
                   /\ pc' = "blocked"
                   /\ ret' = "false"
                   /\ trace' = Append(trace, "blocked")
              ELSE /\ pc' = "committing"
                   /\ trace' = Append(trace, "committing")
                   /\ UNCHANGED <<notifications, nextId, ret>>
    /\ UNCHANGED <<deleteCalls, calls, edits, query, deps, verdict>>
    /\ UNCHANGED <<timers, now, otherVars>>

\* lines 141-159: call deleteAction; report success, or the exception
SafeDeleteCommit ==
    /\ pc = "committing"
    /\ deleteCalls' = deleteCalls + 1
    /\ \E outcome \in call.outcomes :
       /\ call' = [call EXCEPT !.outcome = outcome]
       /\ IF outcome = "none"
          THEN
            /\ config' = ApplyDeleteAction(config, call.deleteAction)
            /\ notifications' =
                  addNotification(notifications, nextId, "success",
                      call.componentType \o " \"" \o call.componentKey
                          \o "\" deleted",
                      Undef)
            /\ timers' = setTimeout(timers, nextId, "success")
            /\ nextId' = nextId + 1
            /\ pc' = "succeeded"
            /\ ret' = "true"
            /\ trace' = Append(trace, "succeeded")
          ELSE IF Caught(outcome) THEN
            /\ config' = config
            /\ notifications' =
                  addNotification(notifications, nextId, "error",
                      "Failed to delete " \o call.componentType \o " \""
                          \o call.componentKey \o "\"",
                      IF outcome = "Error" THEN S("boom")
                      ELSE S("Unknown error"))
            /\ timers' = setTimeout(timers, nextId, "error")
            /\ nextId' = nextId + 1
            /\ pc' = "failed"
            /\ ret' = "false"
            /\ trace' = Append(trace, "failed")
          ELSE \* the exception leaves safeDelete
            /\ pc' = "threw"
            /\ ret' = "threw"
            /\ trace' = Append(trace, "threw")
            /\ UNCHANGED <<config, notifications, nextId, timers>>
    /\ UNCHANGED <<calls, edits, query, deps, verdict>>
    /\ UNCHANGED <<now, otherVars>>

-----------------------------------------------------------------------------
(* The callers of safeDelete *)

\* the type name a section passes for its components
DisplayType(cat) ==
    CASE cat = "schema"            -> "Schema"
      [] cat = "llm"               -> "LLM"
      [] cat = "variable"          -> "Variable"
      [] cat = "retriever"         -> "Retriever"
      [] cat = "genie_room"        -> "Genie Room"
      [] cat = "vector_store"      -> "Vector Store"
      [] cat = "function"          -> "Function"
      [] cat = "tool"              -> "Tool"
      [] cat = "guardrail"         -> "Guardrail"
      [] cat = "prompt"            -> "Prompt"
      [] cat = "agent"             -> "Agent"
      [] cat = "database"          -> "Database"
      [] cat = "service_principal" -> "Service Principal"
      [] cat = "connection"        -> "Connection"
      [] cat = "warehouse"         -> "Warehouse"
      [] cat = "middleware"        -> "Middleware"

\* the keys listed under a category of the live document
ListedKeys(cfg, cat) ==
    IF GetPath(cfg, CatPath(cat)).t = "obj"
    THEN KeysOf(GetPath(cfg, CatPath(cat))) ELSE {}

\* outcomes of a deleteAction callback: it returns, throws an Error, or throws
\* something that is not an Error
Outcomes == {"none", "Error", "value"}

\* a delete button of a component section: safeDelete(type, key, remove);
\* the callback is any function
SectionDeleteClick(cat, key) ==
    /\ key \in ListedKeys(config, cat)
    /\ SafeDeleteEnter(DisplayType(cat), key,
                       [kind |-> "remove", path |-> CatPath(cat), key |-> key],
                       Outcomes)

\* MiddlewareSection renders: the list reads mw.name of every entry and, for
\* an entry of no known category, calls mw.name.split('.'); an entry whose
\* name is not a string throws there and the section shows nothing
MiddlewareRenders(cfg) ==
    \A key \in ListedKeys(cfg, "middleware") :
        Get(GetPath(cfg, <<"middleware", key>>), "name").t = "str"

\* MiddlewareSection, the two delete buttons:
\* safeDelete('Middleware', key, () => removeMiddleware(key))
MiddlewareDeleteClick(key) ==
    /\ MiddlewareRenders(config)
    /\ key \in ListedKeys(config, "middleware")
    /\ SafeDeleteEnter("Middleware", key,
                       [kind |-> "remove", path |-> <<"middleware">>, key |-> key],
                       {"none"})

\* MemorySection.handleDeleteClick
MemoryHandleDeleteClick ==
    /\ Truthy(Get(config, "memory"))
    /\ SafeDeleteEnter("Memory",
                       IF Truthy(Get2(config, "memory", "refName"))
                       THEN Get2(config, "memory", "refName").s ELSE "memory",
                       [kind |-> "updateMemory"],
                       {"none"})

\* MemorySection.findDatabaseKey: the key of the first configured database
\* with the instance_name, or the name, of db; '' when there is none
findDatabaseKey(cfg, db) ==
    LET databases == IF Truthy(Get2(cfg, "resources", "databases"))
                     THEN Get2(cfg, "resources", "databases") ELSE O(<<>>)
        entries   == Entries(databases)
        matches(configuredDb) ==
            \/ /\ Truthy(Get(db, "instance_name"))
               /\ Get(configuredDb, "instance_name") = Get(db, "instance_name")
            \/ /\ Truthy(Get(db, "name"))
               /\ Get(configuredDb, "name") = Get(db, "name")
        found     == {i \in DOMAIN entries : matches(entries[i][2])}
    IN  IF ~Truthy(db) \/ found = {} THEN ""
        ELSE entries[CHOOSE i \in found : \A j \in found : i <= j][1]

\* MemorySection.resetForm: the form's defaults
resetForm ==
    [refName |-> "memory",
     checkpointerEnabled |-> FALSE, storeEnabled |-> FALSE,
     checkpointerType |-> "memory", checkpointerName |-> S("default_checkpointer"),
     checkpointerDatabase |-> "",
     storeType |-> "memory", storeName |-> S("default_store"),
     storeDatabase |-> "", storeDims |-> N(1536),
     storeNamespace |-> S("{user_id}"),
     storeEmbeddingModel |-> S("databricks-gte-large-en")]

\* x || y
OrElse(x, y) == IF Truthy(x) THEN x ELSE y

\* MemorySection.loadFormFromMemory
loadFormFromMemory(cfg, mem) ==
    LET checkpointer == Get(mem, "checkpointer")
        store        == Get(mem, "store")
    IN  [refName |-> IF Truthy(Get(mem, "refName"))
                     THEN Get(mem, "refName").s ELSE "memory",
         checkpointerEnabled |-> Truthy(checkpointer),
         checkpointerType |->
             IF Truthy(checkpointer) /\ Truthy(Get(checkpointer, "database"))
             THEN "postgres" ELSE "memory",
         checkpointerName |->
             IF Truthy(checkpointer)
             THEN OrElse(Get(checkpointer, "name"), S("default_checkpointer"))
             ELSE S("default_checkpointer"),
         checkpointerDatabase |->
             IF Truthy(checkpointer)
             THEN findDatabaseKey(cfg, Get(checkpointer, "database")) ELSE "",
         storeEnabled |-> Truthy(store),
         storeType |->
             IF Truthy(store) /\ Truthy(Get(store, "database"))
             THEN "postgres" ELSE "memory",
         storeName |->
             IF Truthy(store) THEN OrElse(Get(store, "name"), S("default_store"))
             ELSE S("default_store"),
         storeDatabase |->
             IF Truthy(store) THEN findDatabaseKey(cfg, Get(store, "database"))
             ELSE "",
         storeDims |->
             IF Truthy(store) THEN OrElse(Get(store, "dims"), N(1536))
             ELSE N(1536),
         storeNamespace |->
             IF Truthy(store) THEN OrElse(Get(store, "namespace"), S("{user_id}"))
             ELSE S("{user_id}"),
         storeEmbeddingModel |->
             IF Truthy(store) /\ Truthy(Get(store, "embedding_model"))
             THEN OrElse(Get2(store, "embedding_model", "name"),
                         S("databricks-gte-large-en"))
             ELSE S("databricks-gte-large-en")]

\* safeDelete(componentType, componentKey, deleteAction) called with a type
\* validateDeletion has no case for; the callback is any function, and leaves
\* the document alone
SafeDelete(componentType, componentKey) ==
    /\ SectionOf(ToLowerCase(componentType)) = <<>>
    /\ SafeDeleteEnter(componentType, componentKey, [kind |-> "none"], Outcomes)

\* normalizeRefName (utils/name-utils) on names that are already normal:
\* lower case, no blanks
normalizeRefName(name) == name

\* MemorySection.buildMemoryModel on the form's state
buildMemoryModel(cfg, form) ==
    LET databases == IF Truthy(Get2(cfg, "resources", "databases"))
                     THEN Get2(cfg, "resources", "databases") ELSE O(<<>>)
        database(type, key) ==
            IF type = "postgres" /\ key # "" /\ Truthy(Get(databases, key))
            THEN << <<"database", Get(databases, key)>> >> ELSE <<>>
        checkpointer ==
            O(<< <<"name", form.checkpointerName>> >>
              \o database(form.checkpointerType, form.checkpointerDatabase))
        store ==
            O(<< <<"name", form.storeName>> >>
              \o (IF Truthy(form.storeEmbeddingModel)
                  THEN << <<"embedding_model",
                            O(<< <<"name", form.storeEmbeddingModel>>,
                                 <<"on_behalf_of_user", B(FALSE)>> >>)>> >>
                  ELSE <<>>)
              \o << <<"dims", form.storeDims>> >>
              \o (IF Truthy(form.storeNamespace)
                  THEN << <<"namespace", form.storeNamespace>> >> ELSE <<>>)
              \o database(form.storeType, form.storeDatabase))
    IN  IF ~(form.checkpointerEnabled \/ form.storeEnabled) THEN Undef
        ELSE O(<< <<"refName", S(IF normalizeRefName(form.refName) # ""
                                 THEN normalizeRefName(form.refName)
                                 ELSE "memory")>> >>
               \o (IF form.checkpointerEnabled
                   THEN << <<"checkpointer", checkpointer>> >> ELSE <<>>)
               \o (IF form.storeEnabled
                   THEN << <<"store", store>> >> ELSE <<>>))

\* the form as the modal opens it: handleEditClick loads the configured memory
\* (the only button while there is one), handleAddClick resets the form
\* (the only button while there is none)
openForm(cfg) ==
    IF Truthy(Get(cfg, "memory"))
    THEN loadFormFromMemory(cfg, Get(cfg, "memory"))
    ELSE resetForm

\* MemorySection.handleSubmit on the form the modal opened, with the reference
\* name typed (the input is disabled while editing) and the two switches set
MemoryHandleSubmit(refName, checkpointerEnabled, storeEnabled) ==
    /\ ~Running
    /\ edits < MaxEdits
    /\ Truthy(Get(config, "memory")) => refName = openForm(config).refName
    /\ LET form == [openForm(config) EXCEPT
                        !.refName = refName,
                        !.checkpointerEnabled = checkpointerEnabled,
                        !.storeEnabled = storeEnabled]
       IN  config' = IF ~checkpointerEnabled /\ ~storeEnabled THEN config
                     ELSE updateMemory(config, buildMemoryModel(config, form))
    /\ edits' = edits + 1
    /\ UNCHANGED <<notifications, nextId, pc, call, trace, deleteCalls, ret,
                   calls, query, deps, verdict>>
    /\ UNCHANGED <<timers, now, otherVars>>

-----------------------------------------------------------------------------
(* MiddlewareSection: the form, buildMiddlewareArgs and handleSubmit.  Of the *)
(* factories of PRECONFIGURED_MIDDLEWARE the model has the tool call limit;  *)
(* a middleware of any other name is a custom one                            *)

\* generateDefaultRefName: what follows the first "create_", or else the last
\* part of the dotted name
generateDefaultRefName(factoryFunction) ==
    LET f      == factoryFunction
        starts == {i \in 1..(Len(f) - 7) : SubSeq(f, i, i + 6) = "create_"}
        dots   == {i \in 1..Len(f) : SubSeq(f, i, i) = "."}
        last   == IF dots = {} THEN f
                  ELSE SubSeq(f, (CHOOSE i \in dots : \A j \in dots : i >= j) + 1,
                              Len(f))
    IN  IF f = "custom" THEN ""
        ELSE IF starts # {}
        THEN SubSeq(f, (CHOOSE i \in starts : \A j \in starts : i <= j) + 7, Len(f))
        ELSE IF last # "" THEN last ELSE "middleware"

\* defaultFormData, the fields of the tool call limit and of a custom factory
defaultFormData ==
    [refName |-> "", selectedFactory |-> "", customFactory |-> "",
     toolCallLimitTool |-> "", toolCallLimitThreadLimit |-> Null,
     toolCallLimitRunLimit |-> N(10),
     toolCallLimitExitBehavior |-> S("continue"),
     genericArgs |-> O(<<>>)]

\* the toolRef of parseToolReference(toolArg, configuredTools)
parseToolReference(toolArg, configuredTools) ==
    LET entries == Entries(configuredTools)
        first(matches(_)) ==
            LET found == {i \in DOMAIN entries : matches(entries[i][2])}
            IN  IF found = {} THEN ""
                ELSE entries[CHOOSE i \in found : \A j \in found : i <= j][1]
        named(name) == first(LAMBDA tool : Get(tool, "name") = name)
        exact == first(LAMBDA tool : JSONStringify(tool) = JSONStringify(toolArg))
    IN  CASE toolArg.t = "str" /\ startsWith(toolArg.s, RefPrefix) ->
                slice(toolArg.s, 7)
          [] toolArg.t = "str" /\ startsWith(toolArg.s, AliasPrefix) ->
                slice(toolArg.s, 1)
          [] toolArg.t = "str" ->
                IF Truthy(Get(configuredTools, toolArg.s)) THEN toolArg.s
                ELSE named(toolArg)
          [] IsObjectLike(toolArg) ->
                IF exact # "" THEN exact
                ELSE IF Truthy(Get(toolArg, "name")) THEN named(Get(toolArg, "name"))
                ELSE ""
          [] OTHER -> ""

\* x ?? y
Coalesce(x, y) == IF x.t \in {"undef", "null"} THEN y ELSE x

\* handleEdit(key): the form with the arguments parseMiddlewareArgs reads from
\* the entry
handleEdit(cfg, key) ==
    LET mw    == GetPath(cfg, <<"middleware", key>>)
        name  == Get(mw, "name")
        args  == OrElse(Get(mw, "args"), O(<<>>))
        tools == OrElse(Get(cfg, "tools"), O(<<>>))
        preconfigured == name = S(ToolCallLimitFactory)
    IN  [defaultFormData EXCEPT
            !.refName = key,
            !.selectedFactory = IF preconfigured THEN name.s ELSE "custom",
            !.customFactory = IF preconfigured THEN "" ELSE name.s,
            !.toolCallLimitTool =
                IF preconfigured /\ Truthy(Get(args, "tool"))
                THEN parseToolReference(Get(args, "tool"), tools) ELSE @,
            !.toolCallLimitThreadLimit =
                IF preconfigured THEN Coalesce(Get(args, "thread_limit"), Null)
                ELSE @,
            !.toolCallLimitRunLimit =
                IF preconfigured THEN Coalesce(Get(args, "run_limit"), Null)
                ELSE @,
            !.toolCallLimitExitBehavior =
                IF preconfigured
                THEN OrElse(Get(args, "exit_behavior"), S("continue")) ELSE @,
            !.genericArgs = IF preconfigured THEN @ ELSE args]

\* a button of the Middleware Type grid, lines 1238-1248
selectFactory(formData, editingMiddleware, factory) ==
    [defaultFormData EXCEPT
        !.refName = IF editingMiddleware # "" THEN formData.refName
                    ELSE generateDefaultRefName(factory),
        !.selectedFactory = factory]

\* buildMiddlewareArgs, the branches of the tool call limit and of a custom
\* factory
buildMiddlewareArgs(formData) ==
    IF formData.selectedFactory = ToolCallLimitFactory
    THEN O((IF formData.toolCallLimitTool # ""
            THEN << <<"tool", S(RefPrefix \o formData.toolCallLimitTool)>> >>
            ELSE <<>>)
           \o (IF formData.toolCallLimitThreadLimit # Null
               THEN << <<"thread_limit", formData.toolCallLimitThreadLimit>> >>
               ELSE <<>>)
           \o (IF formData.toolCallLimitRunLimit # Null
               THEN << <<"run_limit", formData.toolCallLimitRunLimit>> >>
               ELSE <<>>)
           \o << <<"exit_behavior", formData.toolCallLimitExitBehavior>> >>)
    ELSE IF Len(Entries(formData.genericArgs)) > 0 THEN formData.genericArgs
    ELSE Undef

\* handleSubmit on the form's state: editingMiddleware is "" when adding
\* (null in the code)
handleSubmit(cfg, editingMiddleware, formData, merges) ==
    LET factoryName == IF formData.selectedFactory = "custom"
                       THEN formData.customFactory
                       ELSE formData.selectedFactory
        args == buildMiddlewareArgs(formData)
        middlewareData ==
            O(<< <<"name", S(factoryName)>> >>
              \o (IF Truthy(args) THEN << <<"args", args>> >> ELSE <<>>))
    IN  IF formData.refName = "" \/ factoryName = "" THEN cfg
        ELSE IF editingMiddleware # "" /\ editingMiddleware # formData.refName
        THEN addMiddleware(removeComponent(cfg, <<"middleware">>,
                                           editingMiddleware),
                           formData.refName, middlewareData)
        ELSE IF editingMiddleware # ""
        THEN updateMiddleware(cfg, formData.refName, middlewareData, merges)
        ELSE addMiddleware(cfg, formData.refName, middlewareData)

\* the form as the modal opens it (handleAdd, or handleEdit of a listed
\* entry) and, when the user picks the tool call limit in the grid, as that
\* button leaves it
openedForm(cfg, editingMiddleware, picksFactory) ==
    LET opened == IF editingMiddleware = "" THEN defaultFormData
                  ELSE handleEdit(cfg, editingMiddleware)
    IN  IF picksFactory
        THEN selectFactory(opened, editingMiddleware, ToolCallLimitFactory)
        ELSE opened

\* Add or Edit, the form filled in, and the submit: refName is the text of the
\* Reference Name box and toolCallLimitTool the value of the Tool to Limit
\* select when the form is submitted; the select is there for the tool call
\* limit and offers '' and the configured tools
HandleSubmit(editingMiddleware, picksFactory, refName, toolCallLimitTool, merges) ==
    /\ ~Running
    /\ edits < MaxEdits
    /\ MiddlewareRenders(config)
    /\ editingMiddleware \in {""} \cup ListedKeys(config, "middleware")
    /\ \E opened \in {openedForm(config, editingMiddleware, picksFactory)} :
          /\ toolCallLimitTool \in
                {opened.toolCallLimitTool} \cup
                (IF opened.selectedFactory = ToolCallLimitFactory
                 THEN {""} \cup ListedKeys(config, "tool") ELSE {})
          /\ config' = handleSubmit(config, editingMiddleware,
                                    [opened EXCEPT
                                        !.refName = refName,
                                        !.toolCallLimitTool = toolCallLimitTool],
                                    merges)
    /\ edits' = edits + 1
    /\ UNCHANGED <<notifications, nextId, pc, call, trace, deleteCalls, ret,
                   calls, query, deps, verdict>>
    /\ UNCHANGED <<timers, now, otherVars>>

-----------------------------------------------------------------------------
(* A call of a dependency finder on the live document *)

FinderCats == Cats

findDependencies(cfg, cat, key) ==
    CASE cat = "schema"            -> findSchemaDependencies(cfg, key)
      [] cat = "llm"               -> findLlmDependencies(cfg, key)
      [] cat = "variable"          -> findVariableDependencies(cfg, key)
      [] cat = "retriever"         -> findRetrieverDependencies(cfg, key)
      [] cat = "genie_room"        -> findGenieRoomDependencies(cfg, key)
      [] cat = "vector_store"      -> findVectorStoreDependencies(cfg, key)
      [] cat = "function"          -> findFunctionDependencies(cfg, key)
      [] cat = "tool"              -> findToolDependencies(cfg, key)
      [] cat = "guardrail"         -> findGuardrailDependencies(cfg, key)
      [] cat = "prompt"            -> findPromptDependencies(cfg, key)
      [] cat = "agent"             -> findAgentDependencies(cfg, key)
      [] cat = "database"          -> findDatabaseDependencies(cfg, key)
      [] cat = "service_principal" -> findServicePrincipalDependencies(cfg, key)
      [] cat = "connection"        -> findConnectionDependencies(cfg, key)
      [] cat = "warehouse"         -> findWarehouseDependencies(cfg, key)

\* the sections a finder loops over reading a property of every entry
\* (table.schema, agent.model, tool.function, ...) with no test of the entry
DereferencedSections(cat) ==
    CASE cat = "schema" ->
            {<<"resources", "tables">>, <<"resources", "volumes">>,
             <<"resources", "functions">>, <<"resources", "vector_stores">>,
             <<"prompts">>}
      [] cat = "llm" ->
            {<<"agents">>, <<"guardrails">>, <<"resources", "vector_stores">>}
      [] cat \in {"variable", "retriever", "genie_room", "function",
                  "service_principal", "connection", "warehouse"} ->
            {<<"tools">>}
      [] cat = "vector_store" -> {<<"retrievers">>}
      [] cat \in {"tool", "guardrail", "prompt"} -> {<<"agents">>}
      [] OTHER -> {}

\* a finder throws a TypeError when an entry it reads a property of is null
\* or undefined
findThrows(cfg, cat) ==
    \E path \in DereferencedSections(cat) :
        \E section \in {GetPath(cfg, path)} :
            /\ Truthy(section)
            /\ \E i \in DOMAIN Entries(section) :
                  Entries(section)[i][2].t \in {"null", "undef"}

\* a call findXDependencies(config, key): deps is the returned list, unless
\* the call threw
FindDependencies(cat, which) ==
    /\ ~Running
    /\ query.op = ""
    /\ query' = [op |-> "find", type |-> cat, key |-> KeyOf(cat, which)]
    /\ \E threw \in {findThrows(config, cat)} :
          /\ verdict' = [threw |-> threw]
          /\ deps' = IF threw THEN <<>>
                     ELSE findDependencies(config, cat, KeyOf(cat, which))
    /\ UNCHANGED <<config, notifications, nextId, pc, call, trace, deleteCalls,
                   ret, calls, edits>>
    /\ UNCHANGED <<timers, now, otherVars>>

\* component types validateDeletion has no case for
UnmodeledTypes == {"Memory", "Table", "Volume", "App"}

\* a direct call validateDeletion(config, componentType, componentKey)
ValidateDeletion(componentType, componentKey) ==
    /\ ~Running
    /\ query.op = ""
    /\ query' = [op |-> "validate", type |-> componentType,
                 key |-> componentKey]
    /\ \E r \in {validateDeletion(config, componentType, componentKey)} :
          /\ verdict' = [result |-> r.result, shared |-> r.shared]
          /\ config' = r.live
    /\ deps' = <<>>
    /\ UNCHANGED <<notifications, nextId, pc, call, trace, deleteCalls,
                   ret, calls, edits>>
    /\ UNCHANGED <<timers, now, otherVars>>

-----------------------------------------------------------------------------
(* Specifications *)

NoCall == [componentType |-> "", componentKey |-> "",
           deleteAction |-> [kind |-> "none"], outcomes |-> {},
           config |-> Null, error |-> Undef, outcome |-> "",
           notified |-> 0]

\* the state useDeploymentStore is created with
DeploymentInitial ==
    [deploymentId |-> Null, deploymentStatus |-> Null, isDeploying |-> FALSE,
     selectedOption |-> "quick", error |-> Null]

\* DEFAULT_CONFIG
DefaultConfig == [repo |-> "natefleming/dao-ai", branch |-> "main", path |-> "config"]

\* GitHubImportModal after its mount: the useState values with the effects of
\* the first render run (the fetch of /api/github-config is in flight);
\* fetches counts the directory fetches in flight for each path and
\* loadedPath is the path whose fetch set items and error last
ModalInitial ==
    [mode |-> "choose", gitHubConfig |-> DefaultConfig, currentPath |-> "config",
     items |-> <<>>, loading |-> FALSE, loadingConfig |-> TRUE, error |-> Null,
     downloading |-> Null, fetches |-> <<>>, loadedPath |-> "",
     isOpen |-> FALSE]

\* no response is being read
NoResponse == [stream |-> "", read |-> 0]

\* ChatPanel as it is mounted: its useState values, the chat store's messages
\* and logs, and no sendMessage running; atStart keeps the state in which the
\* reading of a response began
ChatInitial ==
    [input |-> "", isLoading |-> FALSE, rendered |-> FALSE,
     error |-> Null, errorTrace |-> Null,
     customInputsJson |-> "", customInputsError |-> Null,
     customInputsManuallySet |-> FALSE, closureManuallySet |-> FALSE,
     customOutputs |-> Null, customOutputsExpanded |-> FALSE,
     messages |-> <<>>, logs |-> <<>>,
     pc |-> "idle", inFlight |-> 0, typed |-> 0,
     buffer |-> "", accumulatedContent |-> "",
     handled |-> <<>>, atStart |-> Null, undisturbed |-> TRUE, clicks |-> 0]

InitRest ==
    /\ notifications = <<>>
    /\ nextId = 1
    /\ pc = "idle"
    /\ call = NoCall
    /\ trace = <<>>
    /\ deleteCalls = 0
    /\ ret = "pending"
    /\ calls = 0
    /\ edits = 0
    /\ query = [op |-> "", type |-> "", key |-> ""]
    /\ deps = <<>>
    /\ verdict = Undef
    /\ timers = {}
    /\ now = 0
    /\ deployment = DeploymentInitial
    /\ chat = ChatInitial
    /\ response = NoResponse
    /\ modal = ModalInitial

\* the reference sites the application specification starts from
AppSites ==
    UnmodeledSites \cup
    {st \in FinderSites : st.id \in {"agent.tools"}}

AppScenarios ==
    {sc \in Scenarios(AppSites) : sc.nm = "shared-endpoint" /\ sc.which = "a"}

\* the application: a document in the store, the section handlers, safeDelete
Init ==
    /\ config \in {ScenarioDoc(sc) : sc \in AppScenarios}
    /\ InitRest

Next ==
    \/ \E cat \in Cats : \E key \in ListedKeys(config, cat) :
          SectionDeleteClick(cat, key)
    \/ \E key \in ListedKeys(config, "middleware") : MiddlewareDeleteClick(key)
    \/ MemoryHandleDeleteClick
    \/ \E type \in {"Table", "Volume"} : SafeDelete(type, "table_x")
    \/ SafeDeleteValidate
    \/ SafeDeleteCommit
    \/ \E editing \in {""} \cup ListedKeys(config, "middleware") :
          \E refName \in (IF editing = ""
                          THEN {"", "mw_x", "tool_call_limit_middleware"}
                          ELSE {editing, "mw_y"}) :
             \E tool \in {"", KeyA("tool")} :
                \E picksFactory, merges \in BOOLEAN :
                   HandleSubmit(editing, picksFactory, refName, tool, merges)
    \/ \E refName \in {"", "memory", KeyA("memory")} :
          \E checkpointerEnabled, storeEnabled \in BOOLEAN :
             MemoryHandleSubmit(refName, checkpointerEnabled, storeEnabled)

Spec == Init /\ [][Next]_vars

\* safeDelete is synchronous: once entered it runs to its return
FairSpec == Spec /\ WF_vars(SafeDeleteValidate) /\ WF_vars(SafeDeleteCommit)

\* the dependency finders as functions of the document
FinderInit ==
    /\ config \in {ScenarioDoc(sc) : sc \in Scenarios(FinderSites \cup UnmodeledSites)}
    /\ InitRest

FinderNext ==
    \/ \E cat \in FinderCats, which \in {"a", "b"} : FindDependencies(cat, which)
    \/ \E cat \in Cats \cup {"middleware"} :
          \E key \in ListedKeys(config, cat) :
             ValidateDeletion(DisplayType(cat), key)
    \/ \E type \in UnmodeledTypes :
          \E key \in {KeyA("memory")} \cup UNION {ListedKeys(config, c) : c \in Cats} :
             ValidateDeletion(type, key)

FinderSpec == FinderInit /\ [][FinderNext]_vars

-----------------------------------------------------------------------------
(* The functions of dependency-check.ts and safe-delete.ts called directly,  *)
(* one call per behaviour, on inputs drawn from bounded sets                 *)

\* how `generateYAML(config); yaml.load(yamlString)` can end
ParseOk == [ok |-> TRUE, isError |-> FALSE, message |-> "", kind |-> "ok", name |-> ""]

AliasError(before, literal, name, after) ==
    [ok |-> FALSE, isError |-> TRUE,
     message |-> before \o literal \o " \"" \o name \o "\"" \o after,
     kind |-> "alias", name |-> name]

OtherError(message) ==
    [ok |-> FALSE, isError |-> TRUE, message |-> message,
     kind |-> "other", name |-> ""]

NonError == [ok |-> FALSE, isError |-> FALSE, message |-> "", kind |-> "thrown value", name |-> ""]

ParseOutcomes ==
    {ParseOk, NonError}
    \cup {AliasError(before, literal, name, after) :
             before \in {"", "YAMLException: "},
             literal \in {"undefined alias", "Undefined Alias", "UNDEFINED ALIAS",
                          "unidentified alias"},
             name \in {"tool_a", "memory_a", "my tool", "a"},
             after \in {"", " at line 3, column 9", " in \"agents\""}}
    \cup {OtherError(m) :
             m \in {"", "bad indentation of a mapping entry",
                    "duplicated mapping key",
                    "undefined alias tool_a", "undefined alias \"\"",
                    "undefined alias \"tool_a", "undefinedalias \"tool_a\""}}

\* validateConfig on a document whose serialization and re-parse end as r
ValidateConfig(r) ==
    /\ ~Running
    /\ query.op = ""
    /\ query' = [op |-> "validateConfig", outcome |-> r]
    /\ verdict' = [result |-> validateConfigCatch(r)]
    /\ UNCHANGED <<config, notifications, nextId, pc, call, trace, deleteCalls,
                   ret, calls, edits, deps>>
    /\ UNCHANGED <<timers, now, otherVars>>

\* every section a finder reads or validateDeletion deletes from
SectionPaths ==
    {CatPath(c) : c \in Cats \cup {"middleware"}}
    \cup UNION {DereferencedSections(c) : c \in Cats}
    \cup {<<"app", "environment_vars">>}

\* documents with absent sections, empty sections, and component entries
\* whose value is null, a scalar or an empty mapping
SparseDocs ==
    {O(<<>>)}
    \cup {PutPath(O(<<>>), path, O(<<>>)) : path \in SectionPaths}
    \cup {PutPath(O(<<>>), Append(path, "x_1"), e) :
             path \in SectionPaths, e \in {Null, S("plain"), N(7), O(<<>>)}}

\* component values with more than one key, a nested mapping and a sequence
MatchValues ==
    { O(<< <<"name", S("shared-endpoint")>>, <<"rank", N(1)>> >>),
      O(<< <<"name", S("shared-endpoint")>>,
           <<"tags", A(<<S("x"), S("y")>>)>> >>),
      O(<< <<"name", S("shared-endpoint")>>,
           <<"args", O(<< <<"top_k", N(5)>>, <<"columns", A(<<S("id"), S("text")>>)>> >>)>> >>),
      O(<< <<"name", S("shared-endpoint")>> >>) }

\* documents that configure component <cat>_a with one of these values
MatchDocs ==
    {PutPath(O(<<>>), Append(CatPath(cat), KeyA(cat)), v) :
        cat \in {"tool", "llm"}, v \in MatchValues}

ReverseSeq(s) == [i \in 1..Len(s) |-> s[Len(s) + 1 - i]]

\* v with the keys of every mapping in the opposite order
RECURSIVE KeysReversed(_)
KeysReversed(v) ==
    CASE v.t = "obj" ->
            O(ReverseSeq([i \in DOMAIN v.e |-> <<v.e[i][1], KeysReversed(v.e[i][2])>>]))
      [] v.t = "arr" -> A([i \in DOMAIN v.e |-> KeysReversed(v.e[i])])
      [] OTHER -> v

\* v with the elements of every sequence in the opposite order
RECURSIVE ElementsReversed(_)
ElementsReversed(v) ==
    CASE v.t = "obj" ->
            O([i \in DOMAIN v.e |-> <<v.e[i][1], ElementsReversed(v.e[i][2])>>])
      [] v.t = "arr" -> A(ReverseSeq([i \in DOMAIN v.e |-> ElementsReversed(v.e[i])]))
      [] OTHER -> v

\* the values objectMatchesKey is called on: the components of the document
\* as they are, with keys reordered, with elements reordered, and values that
\* are no object
MatchCandidates(cfg) ==
    LET components ==
            UNION {{GetPath(cfg, Append(CatPath(c), k)) : k \in ListedKeys(cfg, c)} :
                      c \in {"tool", "llm"}}
    IN  components
        \cup {KeysReversed(v) : v \in components}
        \cup {ElementsReversed(v) : v \in components}
        \cup {Null, Undef, S(KeyA("tool")), S("shared-endpoint"), N(1), N(0),
              O(<<>>), A(<<>>)}

\* resource types objectMatchesKey is called with: cases of its switch, and
\* types its switch has no case for
MatchTypes == {"tool", "llm", "agent", "table", "memory", "middleware", "Tool", ""}

\* a call objectMatchesKey(obj, refKey, config, resourceType)
ObjectMatchesKey(obj, refKey, resourceType) ==
    /\ ~Running
    /\ query.op = ""
    /\ query' = [op |-> "objectMatchesKey", obj |-> obj, key |-> refKey,
                 resourceType |-> resourceType]
    /\ verdict' = [result |-> objectMatchesKey(obj, refKey, config, resourceType)]
    /\ UNCHANGED <<config, notifications, nextId, pc, call, trace, deleteCalls,
                   ret, calls, edits, deps>>
    /\ UNCHANGED <<timers, now, otherVars>>

\* candidate keys of a direct call of valueContainsRef or findRefsInObject
RefKeys == {"tool_a", "tool", "a"}

\* values valueContainsRef is called on: the three forms of a reference to
\* some key, strings that contain or extend them, and values that are no string
RefValues ==
    UNION {{S(RefPrefix \o k), S(AliasPrefix \o k), S(k),
            S(k \o "b"), S("x" \o k), S(RefPrefix \o k \o "_v2"),
            S(AliasPrefix \o k \o "_v2"), S(AliasPrefix \o AliasPrefix \o k),
            S(RefPrefix \o AliasPrefix \o k), S("__ref__" \o k),
            S(" " \o k), S(k \o " "), S("ref:" \o k),
            A(<<S(k)>>), O(<< <<"name", S(k)>> >>), O(<< <<k, S(k)>> >>)} :
               k \in RefKeys}
    \cup {S(""), S(RefPrefix), S(AliasPrefix), N(0), N(1), Null, Undef,
          O(<<>>), A(<<>>)}

\* a call valueContainsRef(value, refKey)
ValueContainsRef(value, refKey) ==
    /\ ~Running
    /\ query.op = ""
    /\ query' = [op |-> "valueContainsRef", value |-> value, key |-> refKey]
    /\ verdict' = [result |-> valueContainsRef(value, refKey)]
    /\ UNCHANGED <<config, notifications, nextId, pc, call, trace, deleteCalls,
                   ret, calls, edits, deps>>
    /\ UNCHANGED <<timers, now, otherVars>>

\* documents in which the field of a dependent holds, as a bare string, the
\* human-readable `name` of component <cat>_a (a name that is not its key)
NamedDocs ==
    {PutPath(PutPath(O(<<>>), Append(CatPath(st.cat), KeyA(st.cat)),
                     O(<< <<"name", S("Display Name")>>, <<"rank", N(1)>> >>)),
             st.path,
             IF st.list THEN A(<<S("Display Name")>>) ELSE S("Display Name")) :
        st \in FinderSites}

\* what the `schema` field of a table holds: a scalar reference to schema_a
\* in one of its three forms, another string, or nothing
TableSchemas ==
    {S(KeyA("schema")), S(AliasPrefix \o KeyA("schema")),
     S(RefPrefix \o KeyA("schema")), S("other"), Undef}

TableOf(schema) ==
    IF schema = Undef THEN O(<< <<"name", S("t")>> >>)
    ELSE O(<< <<"name", S("t")>>, <<"schema", schema>> >>)

\* documents with schema "schema_a" and no, one or two tables
TableDocs ==
    LET base == PutPath(O(<<>>), <<"schemas", KeyA("schema")>>,
                        O(<< <<"catalog_name", S("main")>>, <<"schema_name", S("sales")>> >>))
    IN  {PutPath(base, <<"resources", "tables">>, O(<<>>))}
        \cup {PutPath(base, <<"resources", "tables", "orders">>, TableOf(x)) :
                 x \in TableSchemas}
        \cup {PutPath(PutPath(base, <<"resources", "tables", "orders">>, TableOf(x)),
                      <<"resources", "tables", "customers">>, TableOf(y)) :
                 x, y \in TableSchemas}

\* documents in which components <cat>_a and <cat>_b have the same full value
\* and the field of a dependent holds a reference to <cat>_a in one of the
\* four encodings (the expanded one is then the value of both)
TwinDocs ==
    {PutPath(PutPath(PutPath(O(<<>>), Append(CatPath(st.cat), KeyA(st.cat)),
                             ComponentValue(st.cat, "a", "shared-endpoint")),
                     Append(CatPath(st.cat), KeyB(st.cat)),
                     ComponentValue(st.cat, "a", "shared-endpoint")),
             st.path,
             IF st.list THEN A(<<Encode(enc, st.cat, "a", "shared-endpoint")>>)
             ELSE Encode(enc, st.cat, "a", "shared-endpoint")) :
        st \in FinderSites, enc \in Encodings}

FunctionDocs == SparseDocs \cup MatchDocs \cup NamedDocs \cup TableDocs \cup TwinDocs

FunctionInit ==
    /\ config \in FunctionDocs
    /\ InitRest

FunctionNext ==
    \/ \E cat \in FinderCats, which \in {"a", "b"} : FindDependencies(cat, which)
    \/ \E cat \in Cats \cup {"middleware"} :
          \E key \in ListedKeys(config, cat) \cup {KeyA(cat)} :
             ValidateDeletion(DisplayType(cat), key)
    \/ \E obj \in MatchCandidates(config), resourceType \in MatchTypes :
          \E refKey \in {KeyA("tool"), KeyA("llm"), KeyB("tool")} :
             ObjectMatchesKey(obj, refKey, resourceType)

FunctionSpec == FunctionInit /\ [][FunctionNext]_vars

\* scalar leaves of the values findRefsInObject is called on
WalkLeaves ==
    {S("tool_a"), S("*tool_a"), S("__REF__tool_a"), S("other"), N(1), Null}

\* values of one level: sequences of one or two leaves, mappings of one or
\* two leaves
FlatValues ==
    {A(<<x>>) : x \in WalkLeaves}
    \cup {A(<<x, y>>) : x, y \in WalkLeaves}
    \cup {O(<< <<"a", x>> >>) : x \in WalkLeaves}
    \cup {O(<< <<"a", x>>, <<"b", y>> >>) : x, y \in WalkLeaves}

\* what a nested value is built from
WalkParts ==
    {S("tool_a"), S("other"), A(<<S("other"), S("tool_a")>>),
     O(<< <<"a", S("*tool_a")>> >>), A(<<O(<< <<"a", S("tool_a")>> >>)>>),
     O(<< <<"tool_a", S("x")>> >>), A(<<>>), O(<<>>)}

NestedValues ==
    {O(<< <<"a", x>>, <<"b", y>> >>) : x, y \in WalkParts}
    \cup {A(<<x, y>>) : x, y \in WalkParts}
    \cup {O(<< <<"args", O(<< <<"list", A(<<x, y>>)>> >>)>> >>) : x, y \in WalkParts}

\* the finite acyclic values findRefsInObject is called on
WalkRoots == WalkLeaves \cup {Undef} \cup FlatValues \cup NestedValues

\* a call findRefsInObject(root, refKey)
FindRefsInObject(root, refKey) ==
    /\ ~Running
    /\ query.op = ""
    /\ query' = [op |-> "findRefsInObject", root |-> root, key |-> refKey]
    /\ verdict' = [result |-> findRefsInObject(root, refKey, "")]
    /\ UNCHANGED <<config, notifications, nextId, pc, call, trace, deleteCalls,
                   ret, calls, edits, deps>>
    /\ UNCHANGED <<timers, now, otherVars>>

\* dependency records and the lists of them formatDependencyMessage is given
DepRecords ==
    {Dep("table", "orders", "schema"), Dep("agent", "agent_x", "tools"),
     Dep("tool", "tool_x", ".args.retriever"), Dep("app", "agents", "agents list")}

DepLists ==
    {<<>>} \cup {<<a>> : a \in DepRecords}
    \cup {<<a, b>> : a, b \in DepRecords}
    \cup {<<a, b, c>> : a, b, c \in DepRecords}

\* a call formatDependencyMessage(list)
FormatDependencyMessage(list) ==
    /\ ~Running
    /\ query.op = ""
    /\ query' = [op |-> "formatDependencyMessage", deps |-> list]
    /\ verdict' = [result |-> formatDependencyMessage(list)]
    /\ UNCHANGED <<config, notifications, nextId, pc, call, trace, deleteCalls,
                   ret, calls, edits, deps>>
    /\ UNCHANGED <<timers, now, otherVars>>

\* the functions that take no document
ValueInit ==
    /\ config = O(<<>>)
    /\ InitRest

ValueNext ==
    \/ \E r \in ParseOutcomes : ValidateConfig(r)
    \/ \E value \in RefValues, refKey \in RefKeys : ValueContainsRef(value, refKey)
    \/ \E root \in WalkRoots, refKey \in RefKeys : FindRefsInObject(root, refKey)
    \/ \E list \in DepLists : FormatDependencyMessage(list)

ValueSpec == ValueInit /\ [][ValueNext]_vars

-----------------------------------------------------------------------------
(* stores/deploymentStore.ts *)

Step(name, status, error) == [name |-> name, status |-> status, error |-> error]

\* startDeployment(type): the status it builds (and returns) and the state
initialStatus(type) ==
    [id |-> "pending", status |-> "starting", type |-> type,
     started_at |-> now,
     steps |-> <<Step("validate", "running", Undef),
                 Step("create_agent", "pending", Undef),
                 Step("deploy_agent", "pending", Undef)>>,
     current_step |-> 0, error |-> Undef, error_trace |-> Undef]

startDeployment(state, type) ==
    [state EXCEPT !.isDeploying = TRUE, !.selectedOption = type,
                  !.deploymentStatus = initialStatus(type), !.error = Null]

setDeploymentId(state, id) == [state EXCEPT !.deploymentId = S(id)]

\* setDeploymentStatus, line 87: set({ deploymentStatus: status })
storeDeploymentStatus(state, status) ==
    [state EXCEPT !.deploymentStatus = status]

\* line 90: status.status === 'completed' || status.status === 'failed'
isTerminal(status) == status.status = "completed" \/ status.status = "failed"

\* variant: isDeploying is left as it is
keepIsDeploying(state) == state

\* setDeploymentStatus, line 91: set({ isDeploying: false })
clearIsDeploying(state) == [state EXCEPT !.isDeploying = FALSE]

setError(state, error) == [state EXCEPT !.error = S(error), !.isDeploying = FALSE]

completeDeployment(state) == [state EXCEPT !.isDeploying = FALSE]

failDeployment(state, error, errorTrace) ==
    [state EXCEPT
        !.isDeploying = FALSE,
        !.error = S(error),
        !.deploymentStatus =
            IF state.deploymentStatus # Null
            THEN [state.deploymentStatus EXCEPT
                     !.status = "failed",
                     !.error = S(error),
                     !.error_trace = errorTrace,
                     !.steps = [idx \in DOMAIN state.deploymentStatus.steps |->
                                  IF idx - 1 = state.deploymentStatus.current_step
                                  THEN [state.deploymentStatus.steps[idx] EXCEPT
                                           !.status = "failed", !.error = S(error)]
                                  ELSE state.deploymentStatus.steps[idx]]]
            ELSE Null]

\* variant: reset with no test of isDeploying
resetAlways(state) ==
    [state EXCEPT !.deploymentId = Null, !.deploymentStatus = Null,
                  !.isDeploying = FALSE, !.error = Null]

reset(state) ==
    IF state.isDeploying THEN state
    ELSE [state EXCEPT !.deploymentId = Null, !.deploymentStatus = Null,
                       !.isDeploying = FALSE, !.error = Null]

canStartNewDeployment(state) ==
    IF state.isDeploying THEN FALSE
    ELSE IF state.deploymentStatus = Null THEN TRUE
    ELSE state.deploymentStatus.status = "completed"
         \/ state.deploymentStatus.status = "failed"

\* statuses a caller passes to setDeploymentStatus (what the server reports)
ReportedStatuses ==
    {[initialStatus(type) EXCEPT !.id = "dep-1", !.status = st, !.current_step = c] :
        type \in {"quick", "full"},
        st \in {"starting", "creating_agent", "deploying", "completed", "failed"},
        c \in {0, 1, 2}}

\* the variables the deployment store does not touch
deployRest == <<config, notifications, nextId, trace, deleteCalls,
                ret, calls, edits, deps, verdict, timers, now, chat, response,
                modal>>

\* one call of an action of the store that makes one set(), from a caller or
\* from a subscriber that runs between the two set() of setDeploymentStatus;
\* query keeps the action and the state it was called in
DeploymentCall(op, after) ==
    /\ deployment' = after
    /\ query' = [op |-> op, before |-> deployment]
    /\ UNCHANGED <<pc, call, deployRest>>

StartDeployment(type) ==
    DeploymentCall("startDeployment", startDeployment(deployment, type))

SetDeploymentId(id) ==
    DeploymentCall("setDeploymentId", setDeploymentId(deployment, id))

\* setDeploymentStatus(status) up to the end of its first set() (line 87),
\* which publishes the stored status to the subscribers of the store: with a
\* status that is not terminal the call is over; with a terminal one the
\* subscribers run before the second set(), and what they call may be
\* setDeploymentStatus again. call keeps, innermost last, the isDeploying
\* each unfinished call was made in
SetDeploymentStatus(status) ==
    /\ deployment' = storeDeploymentStatus(deployment, status)
    /\ IF isTerminal(status)
       THEN /\ (IF pc = "idle" THEN 0 ELSE Len(call)) < MaxNested
            /\ pc' = "setDeploymentStatus"
            /\ call' = Append(IF pc = "idle" THEN <<>> ELSE call,
                              [isDeploying |-> deployment.isDeploying])
            /\ query' = [op |-> "", before |-> deployment]
       ELSE /\ query' = [op |-> "setDeploymentStatus", before |-> deployment]
            /\ UNCHANGED <<pc, call>>
    /\ UNCHANGED deployRest

\* the second set() of setDeploymentStatus with a terminal status (line 91),
\* after which the call returns
SetDeploymentStatusEnd ==
    /\ pc = "setDeploymentStatus"
    /\ deployment' = clearIsDeploying(deployment)
    /\ IF Len(call) = 1
       THEN pc' = "idle" /\ call' = NoCall
       ELSE pc' = pc /\ call' = SubSeq(call, 1, Len(call) - 1)
    /\ query' = [op |-> "setDeploymentStatus", before |-> call[Len(call)]]
    /\ UNCHANGED deployRest

SetError(error) ==
    DeploymentCall("setError", setError(deployment, error))

CompleteDeployment ==
    DeploymentCall("completeDeployment", completeDeployment(deployment))

FailDeployment(error, errorTrace) ==
    DeploymentCall("failDeployment", failDeployment(deployment, error, errorTrace))

Reset ==
    DeploymentCall("reset", reset(deployment))

DeploymentInit ==
    /\ config = O(<<>>)
    /\ InitRest

DeploymentNext ==
    \/ \E type \in {"quick", "full"} : StartDeployment(type)
    \/ \E id \in {"dep-1"} : SetDeploymentId(id)
    \/ \E status \in ReportedStatuses : SetDeploymentStatus(status)
    \/ SetDeploymentStatusEnd
    \/ \E error \in {"Deployment failed"} : SetError(error)
    \/ CompleteDeployment
    \/ \E error \in {"Deployment failed"}, errorTrace \in {Undef, S("Traceback")} :
          FailDeployment(error, errorTrace)
    \/ Reset

DeploymentSpec == DeploymentInit /\ [][DeploymentNext]_vars

-----------------------------------------------------------------------------
(* components/chat/ChatPanel.tsx *)

\* String.prototype.trim on texts whose only white space is the blank
trim(text) ==
    LET solid == {i \in 1..Len(text) : SubSeq(text, i, i) # " "}
    IN  IF solid = {} THEN ""
        ELSE SubSeq(text, CHOOSE i \in solid : \A j \in solid : i <= j,
                          CHOOSE i \in solid : \A j \in solid : i >= j)

\* text.split('\n')
split(text) ==
    LET breaks == {i \in 1..Len(text) : SubSeq(text, i, i) = "\n"}
        at(n) == IF n = 0 THEN 0
                 ELSE IF n > Cardinality(breaks) THEN Len(text) + 1
                 ELSE CHOOSE b \in breaks : Cardinality({c \in breaks : c < b}) = n - 1
    IN  [n \in 1..(Cardinality(breaks) + 1) |->
            SubSeq(text, at(n - 1) + 1, at(n) - 1)]

\* the payloads of the events the server streams
LogPayload == "{\"type\":\"log\",\"level\":\"info\",\"message\":\"m\"}"
DeltaHePayload == "{\"type\":\"delta\",\"content\":\"He\"}"
DeltaYPayload == "{\"type\":\"delta\",\"content\":\"y\"}"
DonePayload == "{\"type\":\"done\",\"response\":\"Hey\"}"
DoneBarePayload == "{\"type\":\"done\"}"
ErrorPayload == "{\"type\":\"error\",\"error\":\"boom\"}"
OutputsPayload == "{\"type\":\"custom_outputs\",\"data\":{\"k\":\"v\"}}"
PingPayload == "{\"type\":\"ping\"}"

\* JSON.stringify({k: 'v'}, null, 2)
OutputsPretty == "{\n  \"k\": \"v\"\n}"

\* what the user types into the custom inputs box
CustomInputsTexts == {"", "{\"a\":1}", "{bad"}

\* JSON.parse on the texts of the model: the payloads, the custom inputs, and,
\* failing, every other text (a part of a payload is not JSON)
JSONparse(text) ==
    LET obj(e) == [ok |-> TRUE, value |-> O(e)]
    IN  CASE text = LogPayload ->
               obj(<<<<"type", S("log")>>, <<"level", S("info")>>, <<"message", S("m")>>>>)
          [] text = DeltaHePayload ->
               obj(<<<<"type", S("delta")>>, <<"content", S("He")>>>>)
          [] text = DeltaYPayload ->
               obj(<<<<"type", S("delta")>>, <<"content", S("y")>>>>)
          [] text = DonePayload ->
               obj(<<<<"type", S("done")>>, <<"response", S("Hey")>>>>)
          [] text = DoneBarePayload ->
               obj(<<<<"type", S("done")>>>>)
          [] text = ErrorPayload ->
               obj(<<<<"type", S("error")>>, <<"error", S("boom")>>>>)
          [] text = OutputsPayload ->
               obj(<<<<"type", S("custom_outputs")>>,
                     <<"data", O(<<<<"k", S("v")>>>>)>>>>)
          [] text = PingPayload ->
               obj(<<<<"type", S("ping")>>>>)
          [] text = OutputsPretty ->
               obj(<<<<"k", S("v")>>>>)
          [] text = "{\"a\":1}" ->
               obj(<<<<"a", N(1)>>>>)
          [] OTHER -> [ok |-> FALSE]

\* the chat store
addMessage(c, role, content) ==
    [c EXCEPT !.messages = Append(@, [role |-> role, content |-> content])]

updateLastMessage(c, content) ==
    [c EXCEPT !.messages =
        [i \in DOMAIN @ |-> IF i = Len(@) THEN [@[i] EXCEPT !.content = content]
                            ELSE @[i]]]

removeEmptyMessages(c) ==
    [c EXCEPT !.messages = SelectSeq(@, LAMBDA m : m.content # "")]

addLog(c, level, message) ==
    [c EXCEPT !.logs = Append(@, [level |-> level, message |-> message])]

\* startNewSession(): the conversation starts again with no messages; the
\* logs go with them or stay
startNewSession(c, clearsLogs) ==
    [c EXCEPT !.messages = <<>>, !.logs = IF clearsLogs THEN <<>> ELSE @]

clearLogs(c) == [c EXCEPT !.logs = <<>>]

\* lines 111-113
canChat(cfg) ==
    LET agents == Get(cfg, "agents")
        hasAgents == agents.t = "obj" /\ Len(agents.e) > 0
        hasOrchestration ==
            \/ Truthy(Get3(cfg, "app", "orchestration", "supervisor"))
            \/ Truthy(Get3(cfg, "app", "orchestration", "swarm"))
    IN  hasAgents /\ hasOrchestration

\* variant of line 116 with no test of isLoading
returnsEarlyOnBlank(c, cfg) ==
    trim(c.input) = "" \/ ~canChat(cfg)

\* line 116: if (!input.trim() || isLoading || !canChat) return;
\* isLoading is the value of the last render
returnsEarly(c, cfg) ==
    trim(c.input) = "" \/ c.rendered \/ ~canChat(cfg)

\* lines 249-257: the catch block, then the finally block
catchAndFinally(c, errorMsg) ==
    [removeEmptyMessages(addLog([c EXCEPT !.error = S(errorMsg)], "error", errorMsg))
        EXCEPT !.isLoading = FALSE, !.pc = "idle", !.inFlight = 0,
               !.buffer = "", !.atStart = Null]

\* lines 254-257 when nothing was thrown
finally(c) ==
    [c EXCEPT !.isLoading = FALSE, !.pc = "idle", !.inFlight = 0, !.buffer = "",
              !.atStart = Null]

\* lines 118-179: from the guard to `await fetch`, or to the end of the call
\* when the building of the request throws
startRequest(c, cfg) ==
    LET userContent == trim(c.input)
        c1 == [c EXCEPT !.input = "", !.isLoading = TRUE, !.error = Null,
                        !.errorTrace = Null,
                        !.closureManuallySet = c.customInputsManuallySet,
                        !.handled = <<>>, !.accumulatedContent = "",
                        !.buffer = "", !.atStart = Null]
        c2 == addMessage(c1, "user", userContent)
        c3 == addLog(c2, "info",
                     "Sending message: \""
                     \o (IF Len(userContent) > 50 THEN SubSeq(userContent, 1, 50)
                         ELSE userContent)
                     \o (IF Len(userContent) > 50 THEN "..." ELSE "") \o "\"")
        c4 == addMessage(c3, "assistant", "")
        \* try {
        c5 == addLog(c4, "debug",
                     "Preparing request with " \o ToString(Len(c.messages) + 1)
                     \o " messages")
        c6 == addLog(c5, "info", "Creating agent from configuration...")
        loaded == yamlLoad(generateYAML(cfg))
        c7 == addLog(c6, "debug", "Using manual_pat authentication")
        parsed == JSONparse(c.customInputsJson)
        c8 == IF trim(c.customInputsJson) = "" THEN c7
              ELSE addLog([c7 EXCEPT !.customInputsError = Null], "debug",
                          "Custom inputs provided: "
                          \o (IF Len(parsed.value.e) = 0 THEN ""
                              ELSE parsed.value.e[1][1]))
    IN  IF ~loaded.ok THEN catchAndFinally(c6, loaded.message)
        ELSE IF trim(c.customInputsJson) # "" /\ ~parsed.ok
        THEN catchAndFinally(
                 [c7 EXCEPT !.customInputsError = S("Invalid JSON format")],
                 "Invalid custom_inputs JSON")
        ELSE [c8 EXCEPT !.customOutputs = Null, !.pc = "fetch",
                        !.inFlight = c.inFlight + 1]

\* lines 208-241: the switch on data.type
handleEvent(c, data) ==
    LET type == Get(data, "type")
    IN  CASE type = S("log") ->
               addLog(c, Get(data, "level").s, Get(data, "message").s)
          [] type = S("delta") ->
               LET content == c.accumulatedContent \o Get(data, "content").s
               IN  updateLastMessage([c EXCEPT !.accumulatedContent = content],
                                     content)
          [] type = S("custom_outputs") ->
               LET value == Get(data, "data")
                   c1 == [c EXCEPT !.customOutputs = value,
                                   !.customOutputsExpanded = TRUE]
               IN  IF ~c.closureManuallySet /\ Truthy(value) /\ Len(value.e) > 0
                   THEN addLog([c1 EXCEPT !.customInputsJson = OutputsPretty],
                               "info",
                               "Auto-populated custom_inputs from custom_outputs")
                   ELSE c1
          [] type = S("done") ->
               \* data.response.length throws when there is no response
               IF Get(data, "response") = Undef THEN c
               ELSE LET answer == Get(data, "response").s
                    IN  updateLastMessage(
                            addLog(c, "info",
                                   "Completed: " \o ToString(Len(answer))
                                   \o " characters"),
                            IF answer # "" THEN answer
                            ELSE c.accumulatedContent)
          [] type = S("error") ->
               removeEmptyMessages(
                   addLog([c EXCEPT !.error = Get(data, "error"),
                                    !.errorTrace =
                                        IF Truthy(Get(data, "trace"))
                                        THEN Get(data, "trace") ELSE @],
                          "error", Get(data, "error").s))
          [] OTHER -> c

\* lines 204-245: one line of the stream; handled lists the types of the
\* events that reached the switch
handleLine(c, line) ==
    IF ~startsWith(line, "data: ") THEN c
    ELSE LET r == JSONparse(slice(line, 6))
         IN  IF ~r.ok THEN c
             ELSE [handleEvent(c, r.value) EXCEPT
                      !.handled = Append(c.handled, Get(r.value, "type").s)]

\* variant of line 201: the line left incomplete is dropped
dropPartialLine(lines) == ""

\* line 201: buffer = lines.pop() || ''
keepPartialLine(lines) == lines[Len(lines)]

\* lines 197-246: one chunk read from the response body; the decoder maps
\* the bytes of an ASCII stream to the same characters
processChunk(c, chunk) ==
    CHOOSE after \in
        {LET f[i \in 0..(Len(lines) - 1)] ==
                 IF i = 0 THEN [c EXCEPT !.buffer = keepPartialLine(lines)]
                 ELSE CHOOSE next \in {handleLine(prev, lines[i]) :
                                          prev \in {f[i - 1]}} : TRUE
         IN  f[Len(lines) - 1] :
            lines \in {split(c.buffer \o chunk)}} : TRUE

\* the documents the panel is opened on: one with nothing to chat with, one
\* with an agent and a supervisor, one whose agent names a missing component
ChatDocs ==
    {O(<<>>),
     O(<<<<"agents", O(<<<<"agent_x", O(<<<<"name", S("agent_x")>>>>)>>>>)>>,
         <<"app", O(<<<<"orchestration",
                       O(<<<<"supervisor", O(<<<<"model", S("m")>>>>)>>>>)>>>>)>>>>),
     O(<<<<"agents", O(<<<<"agent_x", O(<<<<"model", S(RefPrefix \o "tool_x")>>>>)>>>>)>>,
         <<"app", O(<<<<"orchestration",
                       O(<<<<"swarm", O(<<<<"model", S("m")>>>>)>>>>)>>>>)>>>>)}

Frame(payload) == "data: " \o payload \o "\n\n"

\* the bodies the server answers with
Streams ==
    {"",
     Frame(DeltaHePayload) \o Frame(DeltaYPayload) \o Frame(DonePayload),
     Frame(ErrorPayload) \o Frame(DeltaHePayload) \o "data: " \o DeltaYPayload,
     ": keep-alive\n\n" \o Frame(OutputsPayload) \o Frame(DoneBarePayload),
     Frame(LogPayload) \o Frame(PingPayload)}

\* the variables ChatPanel does not touch
chatRest == <<config, notifications, nextId, pc, call, trace, deleteCalls,
              ret, calls, edits, deps, verdict, timers, now, deployment, modal>>

\* the input box: onChange, line 618; the box is rendered while the config can
\* chat (line 516) and disabled while loading
SetInput(text) ==
    /\ canChat(config)
    /\ ~chat.rendered
    /\ chat.typed < MaxTyped
    /\ chat' = [chat EXCEPT !.input = text, !.typed = @ + 1]
    /\ query' = [op |-> "setInput"]
    /\ UNCHANGED response
    /\ UNCHANGED chatRest

\* the custom inputs box: onChange, lines 464-468; the box is never disabled,
\* and a sendMessage that is running keeps the customInputsManuallySet of the
\* render it was called in
SetCustomInputs(text) ==
    /\ chat.customInputsJson # text
    /\ chat.clicks < MaxClicks
    /\ chat' = [chat EXCEPT !.clicks = @ + 1,
                            !.customInputsJson = text,
                            !.customInputsError = Null,
                            !.customInputsManuallySet = TRUE,
                            !.undisturbed = (chat.pc # "read")]
    /\ query' = [op |-> "setCustomInputs"]
    /\ UNCHANGED response
    /\ UNCHANGED chatRest

\* handleNewSession, lines 267-275, from the New Session button
HandleNewSession(clearsLogs) ==
    /\ chat.clicks < MaxClicks
    /\ chat' = [startNewSession(chat, clearsLogs) EXCEPT
                    !.clicks = @ + 1,
                    !.error = Null, !.errorTrace = Null,
                    !.customInputsJson = "",
                    !.customInputsManuallySet = FALSE,
                    !.customOutputs = Null,
                    !.undisturbed = (chat.pc # "read")]
    /\ query' = [op |-> "handleNewSession"]
    /\ UNCHANGED response
    /\ UNCHANGED chatRest

\* clearLogs() from the Clear button, shown when the config can chat
\* (line 516) and there are logs (line 693)
ClearLogs ==
    /\ canChat(config)
    /\ Len(chat.logs) > 0
    /\ chat.clicks < MaxClicks
    /\ chat' = [clearLogs(chat) EXCEPT !.clicks = @ + 1,
                                       !.undisturbed = (chat.pc # "read")]
    /\ query' = [op |-> "clearLogs"]
    /\ UNCHANGED response
    /\ UNCHANGED chatRest

\* the header button of the custom outputs panel, lines 646-649; the panel is
\* rendered while the config can chat (line 516) and customOutputs has a member
ToggleCustomOutputs ==
    /\ canChat(config)
    /\ Truthy(chat.customOutputs)
    /\ Len(Entries(chat.customOutputs)) > 0
    /\ chat.clicks < MaxClicks
    /\ chat' = [chat EXCEPT !.clicks = @ + 1,
                            !.customOutputsExpanded = ~@]
    /\ query' = [op |-> "toggleCustomOutputs"]
    /\ UNCHANGED response
    /\ UNCHANGED chatRest

\* sendMessage() from the Enter key of the input box or the send button, both
\* rendered while the config can chat (line 516) and disabled while loading
\* (lines 621 and 630), up to its first await; the state it sets in the event
\* is rendered before the next event
SendMessage ==
    /\ canChat(config)
    /\ ~chat.rendered
    /\ IF returnsEarly(chat, config) THEN chat' = chat
       ELSE \E after \in {startRequest(chat, config)} :
               chat' = [after EXCEPT !.rendered = after.isLoading]
    /\ query' = [op |-> "sendMessage", before |-> chat]
    /\ UNCHANGED response
    /\ UNCHANGED chatRest

\* `await fetch` resolves with response.ok and the body `stream`
FetchOk(stream) ==
    /\ chat.pc = "fetch"
    /\ response' = [stream |-> stream, read |-> 0]
    /\ \E c \in {[chat EXCEPT !.pc = "read", !.undisturbed = TRUE]} :
          chat' = [c EXCEPT !.atStart = c]
    /\ query' = [op |-> "fetchOk"]
    /\ UNCHANGED chatRest

\* `await fetch` resolves with !response.ok
FetchNotOk ==
    /\ chat.pc = "fetch"
    /\ chat' = [chat EXCEPT !.pc = "errorBody"]
    /\ query' = [op |-> "fetchNotOk"]
    /\ UNCHANGED response
    /\ UNCHANGED chatRest

\* lines 182-183: `await response.json()` gives errorData, or rejects
ErrorBody(errorData) ==
    /\ chat.pc = "errorBody"
    /\ chat' = catchAndFinally(chat,
                   IF errorData = Undef THEN "Unexpected token < in JSON"
                   ELSE IF Truthy(Get(errorData, "error"))
                        THEN Get(errorData, "error").s
                        ELSE "Chat request failed")
    /\ query' = [op |-> "errorBody"]
    /\ response' = NoResponse
    /\ UNCHANGED chatRest

\* `await fetch` or `await reader.read()` rejects
NetworkError ==
    /\ chat.pc \in {"fetch", "read"}
    /\ chat' = catchAndFinally(chat, "Failed to fetch")
    /\ query' = [op |-> "networkError"]
    /\ response' = NoResponse
    /\ UNCHANGED chatRest

\* `await reader.read()` gives the next n characters of the body
ReadChunk(n) ==
    /\ chat.pc = "read"
    /\ response.read + n <= Len(response.stream)
    /\ response' = [response EXCEPT !.read = @ + n]
    /\ chat' = processChunk(chat, SubSeq(response.stream, response.read + 1,
                                           response.read + n))
    /\ query' = [op |-> "readChunk"]
    /\ UNCHANGED chatRest

\* `await reader.read()` gives done
ReadDone ==
    /\ chat.pc = "read"
    /\ response.read = Len(response.stream)
    /\ response' = NoResponse
    /\ chat' = finally(chat)
    /\ query' = [op |-> "readDone"]
    /\ UNCHANGED chatRest

\* React renders the state set after an await
Render ==
    /\ chat.rendered # chat.isLoading
    /\ chat' = [chat EXCEPT !.rendered = chat.isLoading]
    /\ query' = [op |-> "render"]
    /\ UNCHANGED response
    /\ UNCHANGED chatRest

ChatInit ==
    /\ config \in ChatDocs
    /\ InitRest

\* the steps that end an await of sendMessage, and the render
ChatProgress ==
    \/ \E stream \in Streams : FetchOk(stream)
    \/ FetchNotOk
    \/ \E errorData \in {Undef, O(<<>>), O(<<<<"error", S("bad config")>>>>)} :
          ErrorBody(errorData)
    \/ \E n \in 1..(Len(response.stream) - response.read) : ReadChunk(n)
    \/ ReadDone
    \/ Render

ChatNext ==
    \/ \E text \in {"  ", "hi"} : SetInput(text)
    \/ \E text \in CustomInputsTexts : SetCustomInputs(text)
    \/ \E clearsLogs \in BOOLEAN : HandleNewSession(clearsLogs)
    \/ ClearLogs
    \/ ToggleCustomOutputs
    \/ SendMessage
    \/ NetworkError
    \/ ChatProgress

ChatSpec == ChatInit /\ [][ChatNext]_vars

\* React renders the state that was set; whether fetch, json() and read()
\* settle is up to the server and the network
ChatFairSpec == ChatSpec /\ WF_vars(Render)

-----------------------------------------------------------------------------
(* components/ui/GitHubImportModal *)

Item(name, path, type) ==
    [name |-> name, path |-> path, type |-> type,
     download_url |-> IF type = "file" THEN S("https://raw/" \o path) ELSE Null]

\* the repository: what the contents API answers for each directory
Contents(path) ==
    CASE path = "config" ->
           <<Item("x.yaml", "config/x.yaml", "file"),
             Item("README.md", "config/README.md", "file"),
             Item("a", "config/a", "dir")>>
      [] path = "config/a" ->
           <<Item("z.yml", "config/a/z.yml", "file"),
             Item("b", "config/a/b", "dir")>>
      [] path = "config/a/b" ->
           <<Item("y.yaml", "config/a/b/y.yaml", "file")>>
      [] OTHER -> <<>>

Paths == {"config", "config/a", "config/a/b"}

\* the names of the repository in the order of localeCompare
NameOrder == <<"a", "b", "README.md", "x.yaml", "y.yaml", "z.yml">>

localeCompare(a, b) ==
    LET at(n) == CHOOSE i \in DOMAIN NameOrder : NameOrder[i] = n
    IN  IF at(a) < at(b) THEN -1 ELSE IF at(a) > at(b) THEN 1 ELSE 0

endsWith(text, suffix) ==
    Len(text) >= Len(suffix)
    /\ SubSeq(text, Len(text) - Len(suffix) + 1, Len(text)) = suffix

\* lines 97-101: directories first, then by name
compareItems(a, b) ==
    IF a.type # b.type THEN (IF a.type = "dir" THEN -1 ELSE 1)
    ELSE localeCompare(a.name, b.name)

\* lines 91-101: the directories and the YAML files, sorted
filtered(data) ==
    LET kept == SelectSeq(data, LAMBDA item :
                    item.type = "dir" \/ endsWith(item.name, ".yaml")
                    \/ endsWith(item.name, ".yml"))
        rank(i) == Cardinality({j \in DOMAIN kept : compareItems(kept[j], kept[i]) < 0})
    IN  [n \in DOMAIN kept |-> kept[CHOOSE i \in DOMAIN kept : rank(i) = n - 1]]

\* currentPath.split('/').length
Depth(path) == Cardinality({i \in 1..Len(path) : SubSeq(path, i, i) = "/"}) + 1

\* lines 138-142: the path with its last part removed
parentPath(path) ==
    LET slashes == {i \in 1..Len(path) : SubSeq(path, i, i) = "/"}
    IN  IF slashes = {} THEN path
        ELSE SubSeq(path, 1, (CHOOSE i \in slashes : \A j \in slashes : j <= i) - 1)

\* lines 68-113: the effect after a render in which one of its dependencies
\* changed, up to `await fetch(url)`
fetchContents(before, after) ==
    IF after.mode # "github" \/ after.loadingConfig THEN after
    ELSE IF before.mode = after.mode
            /\ before.currentPath = after.currentPath
            /\ before.gitHubConfig = after.gitHubConfig
            /\ before.loadingConfig = after.loadingConfig
    THEN after
    ELSE [after EXCEPT !.loading = TRUE, !.error = Null,
                       !.fetches = Append(@, after.currentPath)]

\* lines 156-163, 'Reset when modal opens': the effect after a render in
\* which isOpen or gitHubConfig.path changed
resetWhenOpens(before, after) ==
    IF (before.isOpen # after.isOpen
        \/ before.gitHubConfig.path # after.gitHubConfig.path)
       /\ after.isOpen
    THEN [after EXCEPT !.mode = "choose",
                       !.currentPath = after.gitHubConfig.path,
                       !.error = Null]
    ELSE after

\* a render after the state `after` was set and the renders that follow it:
\* the effects run in the order of the source, and the state the reset sets
\* is rendered in its turn
renderAndEffects(before, after) ==
    LET fetched == fetchContents(before, after)
    IN  fetchContents(fetched, resetWhenOpens(before, fetched))

\* the variables GitHubImportModal does not touch
modalRest == <<config, notifications, nextId, pc, call, trace, deleteCalls,
               ret, calls, edits, deps, verdict, timers, now, deployment,
               chat, response>>

\* an event handler, a settled promise or the parent sets state; React
\* renders and runs the effects; a navigation is taken while fewer than MaxFetches fetches run
ModalStep(op, after) ==
    /\ \E next \in {renderAndEffects(modal, after)} :
          /\ Len(next.fetches) <= MaxFetches
          /\ modal' = next
    /\ query' = [op |-> op]
    /\ UNCHANGED modalRest

\* lines 48-65: the fetch of /api/github-config settles
ConfigLoaded(result) ==
    /\ modal.loadingConfig
    /\ ModalStep("fetchConfig",
          IF result = Null THEN [modal EXCEPT !.loadingConfig = FALSE]
          ELSE [modal EXCEPT !.gitHubConfig = result, !.currentPath = result.path,
                             !.loadingConfig = FALSE])

\* the GitHub button of the chooser: setMode('github')
ChooseGitHub ==
    /\ modal.isOpen
    /\ modal.mode = "choose"
    /\ ModalStep("setMode", [modal EXCEPT !.mode = "github"])

\* lines 115-135, for an item of the list shown
HandleItemClick(item) ==
    /\ modal.isOpen
    /\ modal.mode = "github"
    /\ ~modal.loading
    /\ modal.downloading = Null
    /\ \E i \in DOMAIN modal.items : modal.items[i] = item
    /\ ModalStep("handleItemClick",
          IF item.type = "dir" THEN [modal EXCEPT !.currentPath = item.path]
          ELSE IF Truthy(item.download_url)
          THEN [modal EXCEPT !.downloading = S(item.name)]
          ELSE modal)

\* lines 122-133: the download settles; onImportFile belongs to the parent,
\* and onClose() has it close the modal
DownloadSettled(ok) ==
    /\ modal.downloading # Null
    /\ ModalStep("download",
          IF ok THEN [modal EXCEPT !.downloading = Null, !.isOpen = FALSE]
          ELSE [modal EXCEPT !.error = S("Failed to download file"),
                             !.downloading = Null])

\* lines 137-143, from the Back button (shown when canGoBack)
HandleBack ==
    /\ modal.isOpen
    /\ modal.mode = "github"
    /\ Depth(modal.currentPath) > Depth(modal.gitHubConfig.path)
    /\ ModalStep("handleBack",
          IF Depth(modal.currentPath) > 1
          THEN [modal EXCEPT !.currentPath = parentPath(modal.currentPath)]
          ELSE modal)

\* lines 150-154
ResetToChoose ==
    /\ modal.isOpen
    /\ modal.mode = "github"
    /\ ModalStep("resetToChoose",
          [modal EXCEPT !.mode = "choose",
                        !.currentPath = modal.gitHubConfig.path,
                        !.error = Null])

\* lines 145-148, from the Upload File button of the chooser: onLocalUpload
\* belongs to the parent, and onClose() has it close the modal
HandleLocalUploadClick ==
    /\ modal.isOpen
    /\ modal.mode = "choose"
    /\ ModalStep("handleLocalUploadClick", [modal EXCEPT !.isOpen = FALSE])

\* the parent opens the modal: isOpen becomes true
Open ==
    /\ ~modal.isOpen
    /\ ModalStep("open", [modal EXCEPT !.isOpen = TRUE])

\* onClose() from the close button of the Modal: isOpen becomes false
Close ==
    /\ modal.isOpen
    /\ ModalStep("onClose", [modal EXCEPT !.isOpen = FALSE])

\* lines 77-109: the i-th fetch in flight settles with an HTTP status
FetchSettled(i, status) ==
    /\ i \in DOMAIN modal.fetches
    /\ LET path == modal.fetches[i]
           others == [j \in 1..(Len(modal.fetches) - 1) |->
                         IF j < i THEN modal.fetches[j] ELSE modal.fetches[j + 1]]
           done == [modal EXCEPT !.fetches = others, !.loading = FALSE,
                                 !.loadedPath = path]
       IN  ModalStep("fetchContents",
              CASE status = 200 ->
                     [done EXCEPT !.items = filtered(Contents(path))]
                [] status = 404 ->
                     [done EXCEPT !.error = S("Path not found in repository"),
                                  !.items = <<>>]
                [] status = 403 ->
                     [done EXCEPT !.error =
                                     S("API rate limit exceeded. Please try again later."),
                                  !.items = <<>>]
                [] OTHER ->
                     [done EXCEPT !.error = S("GitHub API error: " \o ToString(status)),
                                  !.items = <<>>])

ModalInit ==
    /\ config = O(<<>>)
    /\ InitRest

ModalNext ==
    \/ \E result \in {Null, DefaultConfig, [DefaultConfig EXCEPT !.path = "config/a"]} :
          ConfigLoaded(result)
    \/ Open
    \/ Close
    \/ HandleLocalUploadClick
    \/ ChooseGitHub
    \/ \E path \in Paths : \E i \in DOMAIN filtered(Contents(path)) :
          HandleItemClick(filtered(Contents(path))[i])
    \/ \E ok \in BOOLEAN : DownloadSettled(ok)
    \/ HandleBack
    \/ ResetToChoose
    \/ \E i \in 1..MaxFetches, status \in {200, 404, 403, 500} : FetchSettled(i, status)

ModalSpec == ModalInit /\ [][ModalNext]_vars

-----------------------------------------------------------------------------
(* The notification store on its own: its three actions, the timers it sets *)
(* and the passing of time                                                  *)

\* the step of the clock, in milliseconds
TickMs == 2500

NotificationTypes == {"error", "warning", "success", "info"}

\* the variables the notification store does not touch
notifyRest == <<config, pc, call, trace, deleteCalls, ret, calls, edits,
                query, deps, verdict, otherVars>>

\* addNotification(type, message, details)
AddNotification(type) ==
    /\ nextId <= MaxNotes
    /\ notifications' = addNotification(notifications, nextId, type, "message", Undef)
    /\ timers' = setTimeout(timers, nextId, type)
    /\ nextId' = nextId + 1
    /\ UNCHANGED <<now, notifyRest>>

\* removeNotification(id), for the id of any notification added so far
RemoveNotification(id) ==
    /\ id \in 1..(nextId - 1)
    /\ notifications' = removeNotification(notifications, id)
    /\ UNCHANGED <<nextId, timers, now, notifyRest>>

\* clearAll()
ClearAll ==
    /\ notifications' = clearAll(notifications)
    /\ UNCHANGED <<nextId, timers, now, notifyRest>>

\* a timer whose delay has passed runs its callback
TimerFire(t) ==
    /\ t \in timers
    /\ now >= t.due
    /\ notifications' = timerCallback(notifications, t.id)
    /\ timers' = timers \ {t}
    /\ UNCHANGED <<nextId, now, notifyRest>>

\* time passes; a timer that is due runs at some later step, not before its
\* delay has passed and with no promise of how soon after
Tick ==
    /\ now < MaxTime
    /\ now' = now + TickMs
    /\ UNCHANGED <<notifications, nextId, timers, notifyRest>>

NotifyInit ==
    /\ config = O(<<>>)
    /\ InitRest

NotifyNext ==
    \/ \E type \in NotificationTypes : AddNotification(type)
    \/ \E id \in 1..MaxNotes : RemoveNotification(id)
    \/ ClearAll
    \/ \E t \in timers : TimerFire(t)
    \/ Tick

NotifySpec == NotifyInit /\ [][NotifyNext]_vars

-----------------------------------------------------------------------------
(* Properties of safeDelete *)

Terminal == {"blocked", "succeeded", "failed"}

\* the step added exactly one notification, of the given type
AddedOne(type) ==
    /\ Len(notifications') = Len(notifications) + 1
    /\ SubSeq(notifications', 1, Len(notifications)) = notifications
    /\ notifications'[Len(notifications')].type = type

\* the component a running invocation is about is configured in the document
Configured(cfg, componentType, componentKey) ==
    IF componentType = "Memory"
    THEN Truthy(Get(cfg, "memory"))
    ELSE \E cat \in Cats \cup {"middleware"} :
            /\ DisplayType(cat) = componentType
            /\ componentKey \in ListedKeys(cfg, cat)

\* C1: whenever validateDeletion on the live document returns a diagnostic
\* for the invocation's (componentType, componentKey), safeDelete goes to
\* blocked without calling deleteAction, adds exactly one 'error' notification
\* whose details is that diagnostic, leaves the live document unchanged and
\* returns false; and nothing more happens in a blocked invocation.
C1_DiagnosticBlocks ==
    [][ /\ ( pc = "validating"
             /\ validateDeletion(config, call.componentType,
                                 call.componentKey).result # Null )
           => /\ pc' = "blocked"
              /\ deleteCalls' = 0
              /\ AddedOne("error")
              /\ notifications'[Len(notifications')].details =
                    validateDeletion(config, call.componentType,
                                     call.componentKey).result
              /\ config' = config
              /\ ret' = "false"
        /\ pc = "blocked"
           => \/ pc' = "blocked" /\ deleteCalls' = 0 /\ ret' = "false"
              \/ pc' = "validating" /\ calls' = calls + 1 ]_vars

\* a blocked deletion: the diagnostic was shown, the component is still there
C1_Witness ==
    /\ pc = "blocked"
    /\ call.error # Null
    /\ deleteCalls = 0
    /\ ret = "false"
    /\ config = call.config
    /\ Configured(config, call.componentType, call.componentKey)
    /\ notifications[Len(notifications)].details = call.error

\* the state sequences of an invocation, and their prefixes
Sequences ==
    { <<"validating">>,
      <<"validating", "blocked">>,
      <<"validating", "committing">>,
      <<"validating", "committing", "succeeded">>,
      <<"validating", "committing", "failed">> }

C2_Shape ==
    /\ calls = 0 => pc = "idle" /\ trace = <<>>
    /\ calls > 0 => trace \in Sequences /\ pc = trace[Len(trace)]
    /\ deleteCalls \in {0, 1}
    /\ deleteCalls = 1 <=> pc \in {"succeeded", "failed"}
    /\ pc \in {"committing", "succeeded", "failed"}
         => /\ call.error = Null
            /\ validateDeletion(call.config, call.componentType,
                                call.componentKey).result = Null
    /\ pc = "committing" => config = call.config

C2_Step ==
    \* an invocation starts when the previous one has returned, and starts
    \* from nothing but the live document
    /\ calls' # calls
         => /\ calls' = calls + 1
            /\ pc \in Terminal \cup {"idle"}
            /\ pc' = "validating"
            /\ trace' = <<"validating">>
            /\ deleteCalls' = 0
            /\ call'.error = Undef /\ call'.outcome = ""
            /\ call'.config = config /\ config' = config
    \* while an invocation runs, only its own steps happen, and only its
    \* commit changes the document
    /\ pc \in {"validating", "committing"}
         => /\ calls' = calls /\ edits' = edits
            /\ call'.componentType = call.componentType
            /\ call'.componentKey = call.componentKey
            /\ call'.config = call.config
            /\ Len(trace') = Len(trace) + 1
            /\ config' # config => pc = "committing" /\ pc' = "succeeded"

\* C2: every invocation of safeDelete goes through exactly one of
\* validating -> blocked, validating -> committing -> succeeded and
\* validating -> committing -> failed; deleteAction is called at most once,
\* only after validateDeletion returned null on the document read at the start
\* of the invocation, and the document is not changed between validation and
\* commit; every invocation reaches a terminal state; the next invocation
\* starts afresh.
C2_ValidateThenCommit ==
    /\ [] C2_Shape
    /\ [][C2_Step]_vars
    /\ (pc = "validating") ~> (pc \in Terminal)

\* a second invocation that validated and committed after a first one ended
C2_Witness ==
    /\ calls = 2
    /\ trace = <<"validating", "committing", "succeeded">>
    /\ deleteCalls = 1
    /\ call.error = Null
    /\ config # call.config

\* C3: when validateDeletion returns null, safeDelete goes on to call
\* deleteAction, once; if deleteAction throws, the exception stays inside
\* safeDelete, exactly one 'error' notification is added, no 'success'
\* notification is added and false is returned; otherwise exactly one
\* 'success' notification is added and true is returned.
C3_CommitReports ==
    [][ /\ ( pc = "validating"
             /\ validateDeletion(config, call.componentType,
                                 call.componentKey).result = Null )
           => pc' = "committing" /\ notifications' = notifications
        /\ pc = "committing"
           => /\ deleteCalls' = deleteCalls + 1
              /\ pc' \in {"succeeded", "failed"}
              /\ call'.outcome = "none"
                   => /\ AddedOne("success")
                      /\ pc' = "succeeded" /\ ret' = "true"
              /\ call'.outcome # "none"
                   => /\ AddedOne("error")
                      /\ pc' = "failed" /\ ret' = "false"
                      /\ config' = config ]_vars

\* a deletion that succeeded, then one whose deleteAction threw a value that
\* is not an Error
C3_Witness ==
    /\ pc = "failed"
    /\ call.outcome = "value"
    /\ call.error = Null
    /\ Len(notifications) = 2
    /\ notifications[1].type = "success"
    /\ notifications[2].type = "error"
    /\ notifications[2].details = S("Unknown error")
    /\ Configured(config, call.componentType, call.componentKey)

-----------------------------------------------------------------------------
(* References of a document *)

RefSites == FinderSites \cup UnmodeledSites

\* the values a reference site of the document holds
SiteValues(cfg, st) ==
    LET v == GetPath(cfg, st.path)
    IN  IF st.list
        THEN IF v.t = "arr" THEN {v.e[i] : i \in DOMAIN v.e} ELSE {}
        ELSE IF v.t = "undef" THEN {} ELSE {v}

\* the configured components that have the given key
ComponentsAt(cfg, key) ==
    {GetPath(cfg, Append(CatPath(cat), key)) :
        cat \in {c \in Cats \cup {"middleware"} : key \in ListedKeys(cfg, c)}}
    \cup (IF Truthy(Get(cfg, "memory"))
             /\ key = (IF Truthy(Get2(cfg, "memory", "refName"))
                       THEN Get2(cfg, "memory", "refName").s ELSE "memory")
          THEN {Get(cfg, "memory")} ELSE {})

\* x is one of the four encodings of a reference to the component `key`
Denotes(x, cfg, key) ==
    \/ x = S(RefPrefix \o key)
    \/ x = S(AliasPrefix \o key)
    \/ x = S(key)
    \/ x.t = "obj" /\ x \in ComponentsAt(cfg, key)

\* the marker strings of the document
Markers(cfg) ==
    {StringLeaves(cfg)[i] :
        i \in {j \in DOMAIN StringLeaves(cfg) : IsMarker(StringLeaves(cfg)[j])}}

\* something in the document refers to the component `key`
Referenced(cfg, key) ==
    \/ \E m \in Markers(cfg) : MarkerTarget(m) = key
    \/ \E st \in RefSites : \E x \in SiteValues(cfg, st) : Denotes(x, cfg, key)

\* C4: from a document in which every reference resolves to a configured
\* component, every sequence of deletions attempted through safeDelete leaves
\* a document in which every reference resolves to a configured component.
C4_ReferencesResolve ==
    \A m \in Markers(config) : MarkerTarget(m) \in ComponentKeys(config)

\* C5: validateDeletion allows the deletion of a component that nothing in
\* the document refers to.
C5_UnreferencedAllowed ==
    ( /\ pc \in Terminal \cup {"committing"}
      /\ call.componentType \notin UnmodeledTypes
      /\ ~Referenced(call.config, call.componentKey) )
    => call.error = Null

\* C10 as stated: validateDeletion returns null for every component type it
\* has no case for, without validating the document; a safeDelete with such a
\* type always calls deleteAction and reports success
C10_UnknownTypeAllowed ==
    /\ \A type \in UnmodeledTypes :
          \A key \in {KeyA("memory")} \cup ComponentKeys(config) :
             \E r \in {validateDeletion(config, type, key)} :
                r.result = Null /\ ~r.validated
    /\ (pc \in Terminal /\ call.componentType \in UnmodeledTypes)
         => /\ pc = "succeeded" /\ ret = "true"
            /\ call.error = Null
            /\ deleteCalls = 1
            /\ notifications[Len(notifications)].type = "success"

\* C10: validateDeletion returns null for every component type it has no
\* case for, whatever the document refers to, and does not call
\* validateConfig (no YAML is generated or parsed); a safeDelete with such a
\* type is therefore never blocked and calls deleteAction once: it reports
\* success and returns true when deleteAction returns, and reports the
\* failure and returns false when deleteAction throws
C10_UnknownTypeNeverBlocked ==
    /\ \A type \in UnmodeledTypes :
          \A key \in {KeyA("memory")} \cup ComponentKeys(config) :
             \E r \in {validateDeletion(config, type, key)} :
                r.result = Null /\ ~r.validated
    /\ (pc \in Terminal /\ call.componentType \in UnmodeledTypes)
         => /\ call.error = Null
            /\ deleteCalls = 1
            /\ IF call.outcome = "none"
               THEN /\ pc = "succeeded" /\ ret = "true"
                    /\ notifications[Len(notifications)].type = "success"
               ELSE /\ pc = "failed" /\ ret = "false"
                    /\ notifications[Len(notifications)].type = "error"

\* the memory component was deleted while the document refers to it
C10_Witness ==
    /\ pc = "succeeded"
    /\ call.componentType = "Memory"
    /\ Referenced(call.config, call.componentKey)
    /\ ~Truthy(Get(config, "memory"))
    /\ \E m \in Markers(config) : MarkerTarget(m) = call.componentKey

-----------------------------------------------------------------------------
(* Properties of validateDeletion and of the dependency finders as functions *)
(* of the document                                                           *)

\* the diagnostic of validateConfig that carries a component's name
DiagnosticNaming(name) ==
    S("This component is referenced by \"" \o name
      \o "\". Remove that reference first.")

\* deps has a record for the dependent of a reference site
NamesDependent(records, st) ==
    \E i \in DOMAIN records :
        records[i].type = st.dtype /\ records[i].name = st.dname

\* the sites at which the document refers to the component `key` of `cat`
SitesReferring(cfg, sites, cat, key) ==
    {st \in sites : st.cat = cat /\ \E x \in SiteValues(cfg, st) : Denotes(x, cfg, key)}

\* C6: when a field of a component A holds any of the four encodings of a
\* reference to K, validateDeletion(D, type(K), K) returns a diagnostic that
\* names A -- also at a site no finder inspects (a middleware argument).
C6_ReferencedBlocked ==
    query.op = "validate"
    => \A st \in SitesReferring(config, RefSites \ {s \in RefSites : s.cat = "memory"},
                                CHOOSE c \in Cats \cup {"middleware"} :
                                    DisplayType(c) = query.type \/ query.type \in UnmodeledTypes,
                                query.key) :
          query.type \notin UnmodeledTypes
          => verdict.result = DiagnosticNaming(st.dname)

\* C7: when a field a finder inspects holds any of the four encodings of a
\* reference to K, the finder of K's category returns a record naming the
\* dependent.
C7_FinderFindsEveryEncoding ==
    query.op = "find"
    => \A st \in SitesReferring(config, FinderSites, query.type, query.key) :
          NamesDependent(deps, st)

\* the other component of the category
OtherKey(cat, key) == IF key = KeyA(cat) THEN KeyB(cat) ELSE KeyA(cat)

\* the sites that hold the expanded value of component `key`, whose sibling has
\* the same name and another rank
SitesExpanding(cfg, cat, key) ==
    {st \in FinderSites :
        /\ st.cat = cat
        /\ {key, OtherKey(cat, key)} \subseteq ListedKeys(cfg, cat)
        /\ \E x \in SiteValues(cfg, st) :
              /\ x.t = "obj"
              /\ x = GetPath(cfg, Append(CatPath(cat), key))
              /\ x # GetPath(cfg, Append(CatPath(cat), OtherKey(cat, key)))
              /\ Get(x, "name")
                   = Get(GetPath(cfg, Append(CatPath(cat), OtherKey(cat, key))), "name")}

\* C8: when a dependent holds the expanded value of K1, and K2 has the same
\* name but differs otherwise, the finder reports the dependent for K1 and
\* does not report it for K2.
C8_ExpandedNotConflated ==
    query.op = "find"
    => /\ \A st \in SitesExpanding(config, query.type, query.key) :
             NamesDependent(deps, st)
       /\ \A st \in SitesExpanding(config, query.type,
                                   OtherKey(query.type, query.key)) :
             ~NamesDependent(deps, st)

\* C9: validateDeletion leaves the document it is given as it was, with the
\* component named for deletion still in it, whatever it returns; the document
\* it deletes from shares nothing with the one it was given.
C9_InputUnchanged ==
    [][ query'.op = "validate"
        => /\ config' = config
           /\ verdict'.shared = {}
           /\ \A cat \in Cats \cup {"middleware"} :
                 ListedKeys(config', cat) = ListedKeys(config, cat) ]_vars

\* a deletion was validated and refused; the component is still configured
C9_Witness ==
    /\ query.op = "validate"
    /\ verdict.result # Null
    /\ verdict.shared = {}
    /\ Configured(config, query.type, query.key)
    /\ ~Configured(validateDeletion(config, query.type, query.key).test,
                   query.type, query.key)

-----------------------------------------------------------------------------
(* Properties of validateConfig *)

\* C11: a parse that fails with an undefined-alias error naming N gives the
\* diagnostic 'This component is referenced by "N". Remove that reference
\* first.'; a parse that fails with any other Error gives 'Validation failed: '
\* followed by the raw message; a parse that succeeds gives null; whatever
\* was thrown, validateConfig returns (a diagnostic or null) and throws nothing
C11_ParseFailureReported ==
    query.op = "validateConfig" =>
        LET r == query.outcome
        IN  /\ verdict.result.t \in {"null", "str"}
            /\ r.kind = "ok" => verdict.result = Null
            /\ r.kind = "alias" =>
                  verdict.result = S("This component is referenced by \"" \o r.name
                                     \o "\". Remove that reference first.")
            /\ r.kind = "other" =>
                  verdict.result = S("Validation failed: " \o r.message)
            /\ r.kind # "ok" => verdict.result # Null

-----------------------------------------------------------------------------
(* Properties of the functions as a whole *)

\* C12: no core operation raises: on every document that is a tree (absent
\* sections, empty sections, component entries that are null or a scalar
\* included) validateDeletion returns null or a diagnostic and every finder
\* returns a list; an absent section contributes no records
C12_NoOperationRaises ==
    /\ query.op = "validate" => verdict.result.t \in {"null", "str"}
    /\ query.op = "find" =>
          /\ ~verdict.threw
          /\ config = O(<<>>) => deps = <<>>

-----------------------------------------------------------------------------
(* Properties of objectMatchesKey *)

\* deep structural equality: mappings compared as sets of key/value pairs,
\* sequences compared position by position
RECURSIVE SameValue(_, _)
SameValue(x, y) ==
    CASE x.t = "obj" /\ y.t = "obj" ->
            /\ KeysOf(x) = KeysOf(y)
            /\ \A k \in KeysOf(x) : SameValue(Get(x, k), Get(y, k))
      [] x.t = "arr" /\ y.t = "arr" ->
            /\ Len(x.e) = Len(y.e)
            /\ \A i \in DOMAIN x.e : SameValue(x.e[i], y.e[i])
      [] OTHER -> x = y

\* C13: objectMatchesKey compares the value with the configured component by
\* deep structural equality, order-independent for mappings and
\* order-dependent for sequences: the same key/value pairs in another key
\* order match, the same elements in another order do not
C13_StructuralEquality ==
    query.op = "objectMatchesKey" =>
        LET configured == ConfiguredResource(config, query.resourceType, query.key)
        IN  (IsObjectLike(query.obj) /\ Truthy(configured)) =>
                (verdict.result <=> SameValue(query.obj, configured))

\* the resource types the switch of objectMatchesKey has a case for
ModeledTypes == Cats

\* C14: objectMatchesKey returns false, and throws nothing, when the value is
\* null, undefined or not an object, when the resource type is not a modeled
\* category, or when the category holds no component with the candidate key
C14_NoMatchWithoutComponent ==
    query.op = "objectMatchesKey" =>
        /\ verdict.result \in BOOLEAN
        /\ (\/ ~IsObjectLike(query.obj)
            \/ query.resourceType \notin ModeledTypes
            \/ query.key \notin ListedKeys(config, query.resourceType))
           => verdict.result = FALSE

C14_Witness ==
    /\ query.op = "objectMatchesKey"
    /\ query.resourceType = "table"
    /\ query.key = KeyA("tool")
    /\ query.obj = Get2(config, "tools", KeyA("tool"))
    /\ IsObjectLike(query.obj)
    /\ verdict.result = FALSE

-----------------------------------------------------------------------------
(* Properties of valueContainsRef and findRefsInObject *)

\* C15: valueContainsRef returns true exactly when the value is a string
\* equal to '__REF__' + key, to '*' + key or to key; it returns false for
\* every other string, strings that contain or start with the key included,
\* and for every value that is not a string
C15_ScalarClassification ==
    query.op = "valueContainsRef" =>
        (verdict.result <=>
            /\ query.value.t = "str"
            /\ query.value.s \in {"__REF__" \o query.key, "*" \o query.key, query.key})

C15_Witness ==
    /\ query.op = "valueContainsRef"
    /\ query.key = "tool"
    /\ query.value = S("*tool_a")
    /\ verdict.result = FALSE

\* C16: a bare string equal to the `name` field of a component (not only to
\* its key) is a reference to it: a dependent whose field holds that string
\* is reported by the finder for the component's key
C16_BareNameIsReference ==
    query.op = "find" =>
        \A st \in FinderSites :
            (/\ st.cat = query.type
             /\ query.key \in ListedKeys(config, st.cat)
             /\ \E nm \in {Get(GetPath(config, Append(CatPath(st.cat), query.key)), "name")} :
                   nm.t = "str" /\ nm \in SiteValues(config, st))
            => NamesDependent(deps, st)

\* the scalar leaves of v with their paths, in depth-first order
RECURSIVE ScalarLeaves(_, _)
ScalarLeaves(v, path) ==
    CASE v.t = "obj" ->
            FlatMap(v.e, LAMBDA p : ScalarLeaves(p[2], path \o "." \o p[1]))
      [] v.t = "arr" ->
            FlatMap([i \in DOMAIN v.e |-> <<i, v.e[i]>>],
                    LAMBDA p : ScalarLeaves(p[2], path \o "[" \o ToString(p[1] - 1) \o "]"))
      [] OTHER -> <<[path |-> path, value |-> v]>>

\* C17: findRefsInObject(root, key) returns exactly one path for every leaf
\* of root that is a scalar reference to key (none missed, none twice), the
\* paths being built from '.<mapping key>' and '[<index>]' segments and
\* listed in depth-first order of the input; the empty list when there is no
\* such leaf; it terminates on every finite acyclic value
C17_OnePathPerReference ==
    query.op = "findRefsInObject" =>
        LET hits == SelectSeq(ScalarLeaves(query.root, ""),
                              LAMBDA l : l.value \in {S("__REF__" \o query.key),
                                                      S("*" \o query.key),
                                                      S(query.key)})
        IN  verdict.result = [i \in DOMAIN hits |-> hits[i].path]

C17_Witness ==
    /\ query.op = "findRefsInObject"
    /\ query.key = "tool_a"
    /\ query.root = O(<< <<"a", O(<< <<"a", S("*tool_a")>> >>)>>,
                          <<"b", A(<<S("other"), S("tool_a")>>)>> >>)
    /\ verdict.result = <<".a.a", ".b[1]">>

-----------------------------------------------------------------------------
(* Properties of formatDependencyMessage *)

\* text.split('\n')
Lines(text) ==
    LET breaks == {i \in 1..Len(text) : SubSeq(text, i, i) = "\n"}
        \* the position of the n-th line break; 0 and Len(text) + 1 at the ends
        at(n) == IF n = 0 THEN 0
                 ELSE IF n > Cardinality(breaks) THEN Len(text) + 1
                 ELSE CHOOSE b \in breaks : Cardinality({c \in breaks : c < b}) = n - 1
    IN  [n \in 1..(Cardinality(breaks) + 1) |->
            SubSeq(text, at(n - 1) + 1, at(n) - 1)]

\* C20: formatDependencyMessage returns the empty string for an empty list;
\* for a non-empty list it returns, under a heading, one line per record in
\* input order, each of the form '<bullet> <type>: "<name>" (<field>)',
\* followed by the fixed instruction to remove the references before deleting
C20_MessageFormat ==
    query.op = "formatDependencyMessage" =>
        IF query.deps = <<>> THEN verdict.result = ""
        ELSE Lines(verdict.result)
               = <<"This component is referenced by:">>
                 \o [i \in DOMAIN query.deps |->
                        Bullet \o " " \o query.deps[i].type \o ": \""
                        \o query.deps[i].name \o "\" (" \o query.deps[i].field \o ")"]
                 \o <<"", "Please remove these references before deleting.">>

C20_Witness ==
    /\ query.op = "formatDependencyMessage"
    /\ query.deps = <<Dep("table", "orders", "schema"), Dep("agent", "agent_x", "tools")>>
    /\ verdict.result = "This component is referenced by:\n"
                        \o Bullet \o " table: \"orders\" (schema)\n"
                        \o Bullet \o " agent: \"agent_x\" (tools)\n\n"
                        \o "Please remove these references before deleting."

-----------------------------------------------------------------------------
(* Properties of the finders *)

\* the number of records of a list that equal d
Count(records, d) == Cardinality({i \in DOMAIN records : records[i] = d})

\* C18: for every table under resources.tables whose `schema` field is a
\* scalar reference to schema key S (bare S, '*S' or '__REF__S'),
\* findSchemaDependencies(D, S) contains exactly one record
\* {type: 'table', name: <table key>, field: 'schema'}; when resources.tables
\* is empty and nothing else refers to S it returns the empty list
C18_TablesOfSchema ==
    (query.op = "find" /\ query.type = "schema") =>
        LET tables == Get2(config, "resources", "tables")
        IN  /\ \A i \in DOMAIN Entries(tables) :
                  Get(Entries(tables)[i][2], "schema")
                      \in {S(query.key), S("*" \o query.key), S("__REF__" \o query.key)}
                  => Count(deps, Dep("table", Entries(tables)[i][1], "schema")) = 1
            /\ (tables = O(<<>>) /\ ~Referenced(config, query.key)) => deps = <<>>

C18_Witness ==
    /\ query.op = "find" /\ query.type = "schema" /\ query.key = KeyA("schema")
    /\ Get3(config, "resources", "tables", "orders")
         = TableOf(S(KeyA("schema")))
    /\ Get3(config, "resources", "tables", "customers")
         = TableOf(S("*" \o KeyA("schema")))
    /\ deps = <<Dep("table", "orders", "schema"), Dep("table", "customers", "schema")>>

\* the sites of the category at which the document holds, in expanded form,
\* a value that is the full value of both <cat>_a and <cat>_b
SitesExpandingTwins(cfg, cat) ==
    {st \in FinderSites :
        /\ st.cat = cat
        /\ {KeyA(cat), KeyB(cat)} \subseteq ListedKeys(cfg, cat)
        /\ GetPath(cfg, Append(CatPath(cat), KeyA(cat)))
             = GetPath(cfg, Append(CatPath(cat), KeyB(cat)))
        /\ \E x \in SiteValues(cfg, st) :
              x.t = "obj" /\ x = GetPath(cfg, Append(CatPath(cat), KeyA(cat)))}

\* the sites of the category that hold a scalar reference to the key
SitesNaming(cfg, cat, key) ==
    {st \in FinderSites :
        /\ st.cat = cat
        /\ \E x \in SiteValues(cfg, st) :
              x \in {S(key), S("*" \o key), S("__REF__" \o key)}}

\* C19: a scalar reference to a key is matched by that key whatever the
\* values of the components are, and when K1 and K2 of one category have
\* identical full values and a dependent holds that value in expanded form,
\* the finder reports the dependent for K1 and for K2
C19_TwinsBothReported ==
    query.op = "find" =>
        /\ \A st \in SitesNaming(config, query.type, query.key) :
              NamesDependent(deps, st)
        /\ query.key \in {KeyA(query.type), KeyB(query.type)} =>
              \A st \in SitesExpandingTwins(config, query.type) :
                  NamesDependent(deps, st)

-----------------------------------------------------------------------------
(* Properties of MiddlewareSection *)

\* C21: every removal of a middleware entry from the live document happens in
\* a handler that called validateDeletion for that entry and got null: the
\* two delete buttons and the submit handler that renames a middleware never
\* remove an entry without that gate
C21_MiddlewareRemovalGated ==
    [][\A key \in ListedKeys(config, "middleware") :
          key \notin ListedKeys(config', "middleware") =>
              /\ pc = "committing"
              /\ call.componentType = "Middleware"
              /\ call.componentKey = key
              /\ call.error = Null]_vars

-----------------------------------------------------------------------------
(* Properties of the notification store *)

\* a step in which a timer ran its callback
TimerFired == timers' # timers /\ timers' \subseteq timers

\* the ids of the notifications of a list
Ids(list) == {list[i].id : i \in DOMAIN list}

\* C22 as stated: a notification of a type other than 'error' is removed from
\* the list 10 seconds after it was added if it is still there, at that
\* moment and no later; a notification of type 'error' is never removed by a
\* timer: it leaves the list only by removeNotification(id) or clearAll
C22_AutoRemoval ==
    /\ [](\A i \in DOMAIN notifications :
            notifications[i].type # "error" =>
                /\ now <= notifications[i].timestamp + 10000
                /\ [id |-> notifications[i].id,
                    due |-> notifications[i].timestamp + 10000] \in timers)
    /\ [][\A i \in DOMAIN notifications :
            notifications[i].id \notin Ids(notifications') =>
                IF TimerFired
                THEN /\ notifications[i].type # "error"
                     /\ now = notifications[i].timestamp + 10000
                ELSE \/ notifications' = <<>>
                     \/ notifications' = removeNotification(notifications, notifications[i].id)]_vars

\* C22: a notification of a type other than 'error' has, while it is in the
\* list, a timer set for 10 seconds after it was added; the timer removes it
\* when it runs, which is not before those 10 seconds have passed and may be
\* later; a notification of type 'error' is never removed by a timer: it
\* leaves the list only by removeNotification(id) or clearAll
C22_AutoRemovalNotBefore ==
    /\ [](\A i \in DOMAIN notifications :
            notifications[i].type # "error" =>
                [id |-> notifications[i].id,
                 due |-> notifications[i].timestamp + AutoRemoveDelay] \in timers)
    /\ [][\A i \in DOMAIN notifications :
            notifications[i].id \notin Ids(notifications') =>
                IF TimerFired
                THEN /\ notifications[i].type # "error"
                     /\ now >= notifications[i].timestamp + AutoRemoveDelay
                     /\ notifications' = removeNotification(notifications, notifications[i].id)
                ELSE \/ notifications' = <<>>
                     \/ notifications' = removeNotification(notifications, notifications[i].id)]_vars

\* an error and a notification of another type, both added at 0, are still
\* listed 12.5 seconds later: the timer of the second is due and has not run
C22_Witness ==
    /\ now = 12500
    /\ Len(notifications) = 2
    /\ notifications[1].type = "error"
    /\ notifications[1].timestamp = 0
    /\ notifications[2].type # "error"
    /\ notifications[2].timestamp = 0
    /\ [id |-> notifications[2].id, due |-> 10000] \in timers

\* C26: under any interleaving of addNotification, removeNotification,
\* clearAll and timer firings, a timer firing removes at most the one
\* notification it was created for: nothing when that one is already gone,
\* never an 'error' notification, never one added later, and the ones that
\* remain keep their order
C26_TimerRemovesOnlyItsOwn ==
    [][TimerFired =>
          \E t \in timers \ timers' :
             LET gone == {i \in DOMAIN notifications :
                            notifications[i].id \notin Ids(notifications')}
             IN  /\ Cardinality(gone) <= 1
                 /\ \A i \in gone : /\ notifications[i].id = t.id
                                     /\ notifications[i].type # "error"
                                     /\ notifications[i].timestamp + 10000 = t.due
                 /\ t.id \notin Ids(notifications) => notifications' = notifications
                 /\ notifications' =
                       SelectSeq(notifications, LAMBDA n : n.id \in Ids(notifications'))]_vars

\* a timer fires for a notification that removeNotification already took,
\* while an error and a later notification are in the list
C26_Witness ==
    /\ timers = {[id |-> 3, due |-> 12500]}
    /\ now = 10000
    /\ Len(notifications) = 2
    /\ notifications[1].type = "error"
    /\ notifications[2].id = 3

-----------------------------------------------------------------------------
(* Properties of the deployment store *)

\* C23: reset() changes nothing while isDeploying is true; when isDeploying
\* is false it sets deploymentId, deploymentStatus and error to null and
\* isDeploying to false, and leaves selectedOption unchanged
C23_ResetOnlyWhenIdle ==
    query.op = "reset" =>
        IF query.before.isDeploying THEN deployment = query.before
        ELSE /\ deployment.deploymentId = Null
             /\ deployment.deploymentStatus = Null
             /\ deployment.error = Null
             /\ deployment.isDeploying = FALSE
             /\ deployment.selectedOption = query.before.selectedOption

C23_Witness ==
    /\ query.op = "reset"
    /\ query.before.isDeploying
    /\ query.before.deploymentId # Null
    /\ deployment = query.before

C25_CanRestartAfterEnd ==
    (/\ query.op \in {"setDeploymentStatus", "setError", "completeDeployment",
                      "failDeployment"}
     /\ query.before.isDeploying
     /\ ~deployment.isDeploying)
    => canStartNewDeployment(deployment)

-----------------------------------------------------------------------------
(* Properties of ChatPanel.sendMessage *)

\* C27: sendMessage does nothing when isLoading is true, the input is blank
\* or the config cannot chat; every sendMessage that starts sets isLoading to
\* true and on every path sets it back to false when it finishes, so at most
\* one chat request is in flight at any time and the panel never stays in the
\* loading state, whether or not the server answers
C27_OneRequestNeverStuck ==
    /\ [](query.op = "sendMessage" =>
            /\ (query.before.isLoading \/ query.before.rendered
                \/ trim(query.before.input) = ""
                \/ ~canChat(config))
               => chat = query.before
            /\ chat.pc # "idle" => chat.isLoading)
    /\ [](chat.inFlight <= 1)
    /\ [](chat.pc # "idle" <=> chat.inFlight = 1)
    /\ [](chat.pc # "idle" => chat.isLoading)
    /\ [](chat.pc = "idle" => ~chat.isLoading)
    /\ (chat.isLoading ~> ~chat.isLoading)
    /\ (chat.rendered ~> ~chat.rendered)

\* C28: for a fixed response stream, the events handled and the final content
\* of the last assistant message are the same for every way of splitting the
\* stream into chunks: whatever was read so far in whatever chunks, reading
\* the rest in one chunk ends as reading the whole stream in one chunk does;
\* the messages, logs, error and custom inputs and outputs are compared while
\* the user has changed none of them since the reading began
C28_ChunkingInvisible ==
    chat.pc = "read" =>
        LET whole == processChunk(chat.atStart, response.stream)
            end == processChunk(chat, slice(response.stream, response.read))
        IN  /\ end.handled = whole.handled
            /\ end.accumulatedContent = whole.accumulatedContent
            /\ end.buffer = whole.buffer
            /\ chat.undisturbed =>
                  /\ end.messages = whole.messages
                  /\ end.error = whole.error
                  /\ end.logs = whole.logs
                  /\ end.customOutputs = whole.customOutputs
                  /\ end.customInputsJson = whole.customInputsJson

C28_Witness ==
    /\ query.op = "readChunk"
    /\ startsWith(chat.buffer, "data: ")
    /\ chat.buffer # "data: " \o DeltaYPayload
    /\ chat.handled = <<"delta">>
    /\ chat.messages[Len(chat.messages)] = [role |-> "assistant", content |-> "He"]
    /\ response.stream = Frame(DeltaHePayload) \o Frame(DeltaYPayload) \o Frame(DonePayload)

-----------------------------------------------------------------------------
(* Properties of GitHubImportModal *)

\* C29: under any interleaving of navigation and completions of the
\* directory fetches, whenever loading is false the items (or the error)
\* displayed are those of the fetch for the current path: the response of a
\* fetch started for a path selected before never replaces them
C29_ListingOfCurrentPath ==
    (modal.isOpen /\ modal.mode = "github" /\ ~modal.loadingConfig /\ ~modal.loading)
    => /\ modal.loadedPath = modal.currentPath
       /\ modal.error = Null => modal.items = filtered(Contents(modal.currentPath))

-----------------------------------------------------------------------------
(* Properties of the lists the finders return *)

\* C30: each finder reports a dependent component at most once: the list
\* returned by findXDependencies holds no two records with the same type and
\* name
C30_OneRecordPerDependent ==
    query.op = "find" =>
        \A i, j \in DOMAIN deps :
            (deps[i].type = deps[j].type /\ deps[i].name = deps[j].name) => i = j

====
